---- MODULE Spec2Model ----
(***************************************************************************)
(* A model of foldiff (libfoldiff): the chunked delta codec (zstddiff.rs), *)
(* the container reader (manifest.rs, applying.rs), the diff builder       *)
(* (diffing.rs) and the parallel apply engine (applying.rs).               *)
(*                                                                         *)
(* Byte streams are sequences of small naturals.  The zstd frame codec is  *)
(* an external library: it is modelled by a lossless encoder/decoder pair  *)
(* whose output depends on the reference prefix, so that decoding with a   *)
(* different prefix yields different bytes or an error.                    *)
(***************************************************************************)
EXTENDS Integers, Sequences, FiniteSets, TLC

(***************************************************************************)
(* Bounds of the model.                                                    *)
(***************************************************************************)
\* longest byte stream given to the codec
MaxLen == 4
\* byte values 1..MaxByte occur in streams
MaxByte == 2
\* CHUNK_SIZE of the source is 2^30; the model scales it to this many bytes
ChunkBound == 2
\* relative paths 1..NumPaths may occur in a tree
NumPaths == 2
\* the width of the significand of the floating-point numbers
MantissaBits == 3

VARIABLES
    \* ---- chunked delta codec (zstddiff.rs) ----
    zpc,        \* "off" | "start" | "diff" | "diffed" | "apply" | "done" | "err"
    zold,       \* the old stream
    znew,       \* the new stream
    zdest,      \* diff(): the destination writer [buf, pos]
    zn,         \* num_chunks (diff: computed; apply: read from the blob)
    zi,         \* index of the next chunk
    zout,       \* apply(): bytes written to dest
    zwritten,   \* apply(): the running `written` count
    zopos,      \* apply(): read position of `old`
    zdpos,      \* apply(): read position of `diff` (0-based offset)
    \* ---- DiffManifest::read_from on a byte input (manifest.rs) ----
    rpc,        \* "off" | "start" | "versioned" | "accepted" | "rejected"
    rbuf,       \* the input bytes
    rpos,       \* the reader's offset
    rver,       \* the version verify_and_read_ver returned
    rkind,      \* which reader parsed the manifest: "none" | "raw" | "compressed"
    rman,       \* the manifest read_from returned
    \* ---- scan_to_diff, write_to, read_diff_from, apply ----
    ppc,        \* "off" | "scan" | "scan_failed" | "written" | "write_failed" |
                \* "loaded" | "load_failed" | "applying" | "ok" | "err" | "panic"
    old_root,   \* the tree under the builder's old_root
    new_root,   \* the tree under the builder's new_root
    dd,         \* the DiffingDiff
    wr,         \* what write_to wrote: [ok, buf, pos, offs_new, offs_patch, manifest]
    adiff,      \* what read_diff_from returned: [ok, pos, manifest, blobs_new, blobs_patch]
    fsys,       \* apply(): [old, new], the trees under old_root and new_root
    old0,       \* the tree under apply's old_root when apply began
    writes,     \* the <<root, path, worker>> of every file creation or write
    task,       \* the four spawned closures: [pc, todo, i, checks, pending, snap]
    errs,       \* the Mutex<Vec<_>> of errors
    mutex,      \* the holder of the mutex, or "free"
    reported,   \* every error a worker returned or threw
    \* ---- the command-line operations (foldiff/src/main.rs) ----
    cmd,        \* "none" | "apply" | "verify" | "equality" | "upgrade"
    ret,        \* the Result the operation returned: [returned, ok, msg]
    stdout,     \* the lines printed
    udst,       \* auto_upgrade: the destination writer [buf, pos]
    \* ---- XXHashStreamer as a writer and as a reader (hash.rs) ----
    tpc,        \* "off" | "write" | "read" | "done"
    hs_write,   \* the writer tee: [hasher, inner], inner being the sink's bytes
    hs_read,    \* the reader tee: [hasher, pos], pos the source's read offset
    tres,       \* the io::Result of the last write or read: [ok, n]
    \* ---- AutoSpin (reporting.rs) ----
    owner,      \* the thread holding the AutoSpins: [pc, k, way]
    run,        \* per AutoSpin, the value of its AtomicBool
    boxed,      \* per AutoSpin, whether the Box holding the flag is allocated
    ticker,     \* per AutoSpin, its thread: "none" | "load" | "tick" | "sleep" | "exited"
    dangling    \* whether a ticker has used the flag after its Box was freed

codecVars == <<zpc, zold, znew, zdest, zn, zi, zout, zwritten, zopos, zdpos>>
readerVars == <<rpc, rbuf, rpos, rver, rkind, rman>>

builderVars == <<old_root, new_root, dd, wr, adiff>>
applyVars == <<fsys, old0, writes, task, errs, mutex, reported>>
pipeVars == <<ppc, builderVars, applyVars>>

cliVars == <<cmd, ret, stdout, udst>>

teeVars == <<tpc, hs_write, hs_read, tres>>
spinVars == <<owner, run, boxed, ticker, dangling>>
auxVars == <<teeVars, spinVars>>
vars == <<codecVars, readerVars, pipeVars, cliVars, auxVars>>

(***************************************************************************)
(* Generic helpers.                                                        *)
(***************************************************************************)
Min(a, b) == IF a < b THEN a ELSE b

\* sequences over S of length 0..n
SeqsUpTo(S, n) == UNION {[1..k -> S] : k \in 0..n}

\* bytes [from, to) of s, 0-based half-open, as the code's ranges are
Slice(s, from, to) == SubSeq(s, from + 1, to)

\* the k low-order base-256 digits of n, most significant first
RECURSIVE BEDigits(_, _)
BEDigits(n, k) == IF k = 0 THEN <<>> ELSE BEDigits(n \div 256, k - 1) \o <<n % 256>>

\* u64::to_be_bytes
U64BE(n) == BEDigits(n, 8)

\* u64::from_be_bytes of an 8-byte sequence
RECURSIVE FromBE(_)
FromBE(bs) == IF bs = <<>> THEN 0
              ELSE FromBE(SubSeq(bs, 1, Len(bs) - 1)) * 256 + bs[Len(bs)]

(***************************************************************************)
(* A seekable writer (File, Cursor<Vec<u8>>): a buffer and a position.     *)
(* Writing past the end extends the buffer; a gap left by a seek is zeros. *)
(***************************************************************************)
NewWriter == [buf |-> <<>>, pos |-> 0]

WriteAll(w, bytes) ==
    LET end    == w.pos + Len(bytes)
        newlen == IF end > Len(w.buf) THEN end ELSE Len(w.buf)
    IN  [buf |-> [k \in 1..newlen |->
                    IF k > w.pos /\ k <= end THEN bytes[k - w.pos]
                    ELSE IF k <= Len(w.buf) THEN w.buf[k]
                    ELSE 0],
         pos |-> end]

SeekRelative(w, d) == [w EXCEPT !.pos = w.pos + d]

(***************************************************************************)
(* anyhow::Result<()> of an operation: msg holds the lines of the error's  *)
(* Display text.                                                           *)
(***************************************************************************)
NotReturned == [returned |-> FALSE, ok |-> TRUE, msg |-> <<>>]
ReturnedOk == [returned |-> TRUE, ok |-> TRUE, msg |-> <<>>]
ReturnedErr(msg) == [returned |-> TRUE, ok |-> FALSE, msg |-> msg]

\* aggregate_errors!(e): nothing for an empty vector, else bail! with the
\* header line followed by one line per error
aggregate_errors(e) ==
    IF e = <<>> THEN ReturnedOk
    ELSE ReturnedErr(<<<<"Failed with multiple errors:">>>> \o e)

\* no command-line operation has run
CliOff == cmd = "none" /\ ret = NotReturned /\ stdout = {} /\ udst = NewWriter

TeeOff ==
    /\ tpc = "off"
    /\ hs_write = [hasher |-> 0, inner |-> <<>>]
    /\ hs_read = [hasher |-> 0, pos |-> 0]
    /\ tres = [ok |-> TRUE, n |-> 0]

SpinOff ==
    /\ owner = [pc |-> "off", k |-> 0, way |-> "none"]
    /\ run = <<>> /\ boxed = <<>> /\ ticker = <<>>
    /\ dangling = FALSE

AuxOff == TeeOff /\ SpinOff

(***************************************************************************)
(* The zstd frame codec with a reference prefix (external library).        *)
(* A frame is the magic byte, the number k of leading bytes taken from the *)
(* prefix, and the remaining bytes as literals.                            *)
(***************************************************************************)
ZMagic == <<40>>

RECURSIVE CommonPrefixLen(_, _)
CommonPrefixLen(a, b) ==
    IF a = <<>> \/ b = <<>> \/ a[1] # b[1] THEN 0
    ELSE 1 + CommonPrefixLen(Tail(a), Tail(b))

\* Encoder::with_ref_prefix(.., prefix) fed `data`, then finish()
EncodeRefPrefix(prefix, data) ==
    LET k == CommonPrefixLen(prefix, data)
    IN  ZMagic \o <<k>> \o SubSeq(data, k + 1, Len(data))

\* Decoder::with_ref_prefix(frame, prefix) copied to the end
DecodeRefPrefix(prefix, frame) ==
    IF Len(frame) < 2 \/ SubSeq(frame, 1, 1) # ZMagic \/ frame[2] > Len(prefix)
    THEN [ok |-> FALSE, out |-> <<>>]
    ELSE [ok |-> TRUE,
          out |-> SubSeq(prefix, 1, frame[2]) \o SubSeq(frame, 3, Len(frame))]

(***************************************************************************)
(* zstddiff.rs                                                             *)
(***************************************************************************)
(***************************************************************************)
(* f64 arithmetic, with a significand of MantissaBits bits in place of 53: *)
(* a value is the fraction n/d, and every conversion, division and product *)
(* is rounded to the nearest representable value, ties to even.            *)
(***************************************************************************)
RECURSIVE Pow2(_)
Pow2(k) == IF k = 0 THEN 1 ELSE 2 * Pow2(k - 1)

\* the nearest integer to n/d, ties to even
RoundHalfEven(n, d) ==
    IF 2 * (n % d) > d \/ (2 * (n % d) = d /\ (n \div d) % 2 = 1)
    THEN (n \div d) + 1 ELSE n \div d

\* the significand m at exponent e
F64Scaled(m, e) == IF e >= 0 THEN [n |-> m * Pow2(e), d |-> 1]
                   ELSE [n |-> m, d |-> Pow2(0 - e)]

\* the f64 nearest to (n/d) * 2^e
RECURSIVE F64Round(_, _, _)
F64Round(n, d, e) ==
    IF n = 0 THEN [n |-> 0, d |-> 1]
    ELSE IF n >= Pow2(MantissaBits) * d THEN F64Round(n, 2 * d, e + 1)
    ELSE IF n < Pow2(MantissaBits - 1) * d THEN F64Round(2 * n, d, e - 1)
    ELSE F64Scaled(RoundHalfEven(n, d), e)

\* x as f64
F64FromU64(x) == F64Round(x, 1, 0)

\* a / b
F64Div(a, b) == F64Round(a.n * b.d, a.d * b.n, 0)

\* a * b
F64Mul(a, b) == F64Round(a.n * b.n, a.d * b.d, 0)

\* a.ceil()
F64Ceil(a) == [n |-> (a.n + a.d - 1) \div a.d, d |-> 1]

\* a as u64
F64ToU64(a) == a.n \div a.d

CHUNK_SIZE == ChunkBound

\* calc_chunk_num: num_chunks = (l1 as f64 / CHUNK_SIZE).ceil(), as diff
\* writes it (num_chunks as u64)
calc_chunk_num(l1) ==
    F64ToU64(F64Ceil(F64Div(F64FromU64(l1), F64FromU64(CHUNK_SIZE))))

\* calc_chunks: chunk i of 0..num_chunks multiplied by chunk_size
ChunkStart(i, chunk_size) == F64ToU64(F64Mul(F64FromU64(i), chunk_size))

\* calc_chunks: the start offsets (i * (len / num_chunks)) as u64, i in
\* 0..num_chunks, both arguments having been converted to f64
calc_chunks(num_chunks, len) ==
    [k \in 1..num_chunks |->
        ChunkStart(k - 1, F64Div(F64FromU64(len), F64FromU64(num_chunks)))]

\* the end of chunk i (1-based): the next start, or the stream length (peek().unwrap_or)
ChunkEnd(chunks, i, len) == IF i < Len(chunks) THEN chunks[i + 1] ELSE len

\* one iteration of diff()'s while loop, for chunk i (1-based)
DiffChunk(w, old, new, n, i) ==
    LET co  == calc_chunks(n, Len(old))
        cn  == calc_chunks(n, Len(new))
        co1 == co[i]
        co2 == ChunkEnd(co, i, Len(old))
        cn1 == cn[i]
        cn2 == ChunkEnd(cn, i, Len(new))
        dict_chunk == Slice(old, co1, co2)
        frame == EncodeRefPrefix(dict_chunk, Slice(new, cn1, cn2))
        diff_len == Len(frame)
        w1 == SeekRelative(w, 8)
        w2 == WriteAll(w1, frame)
        w3 == SeekRelative(w2, 0 - diff_len - 8)
        w4 == WriteAll(w3, U64BE(diff_len))
    IN  SeekRelative(w4, diff_len)

RECURSIVE DiffLoop(_, _, _, _, _)
DiffLoop(w, old, new, n, i) ==
    IF i > n THEN w ELSE DiffLoop(DiffChunk(w, old, new, n, i), old, new, n, i + 1)

\* diff(old, new, dest, ..): the writer after the whole call
diff(old, new, dest) ==
    LET n == calc_chunk_num(Len(old))
    IN  DiffLoop(WriteAll(dest, U64BE(n)), old, new, n, 1)

\* read_u64 at 0-based offset pos of buf: the value, or ok = FALSE at end of input
read_u64(buf, pos) ==
    IF pos + 8 > Len(buf) THEN [ok |-> FALSE, val |-> 0]
    ELSE [ok |-> TRUE, val |-> FromBE(Slice(buf, pos, pos + 8))]

\* the state of apply() before its loop
ApplyStart(dpos) == [ok |-> TRUE, out |-> <<>>, written |-> 0, opos |-> 0, dpos |-> dpos]

\* one iteration of apply()'s while loop, for chunk i (1-based) of n;
\* `old` is read sequentially from st.opos, `blob` from st.dpos
ApplyChunk(st, old, blob, old_len, n, i) ==
    LET co   == calc_chunks(n, old_len)
        co1  == co[i]
        co2  == ChunkEnd(co, i, old_len)
        need == co2 - co1
        hdr  == read_u64(blob, st.dpos)
        fend == st.dpos + 8 + hdr.val
        dict_chunk == Slice(old, st.opos, st.opos + need)
        dec  == DecodeRefPrefix(dict_chunk, Slice(blob, st.dpos + 8, fend))
    IN  IF st.opos + need > Len(old)  \* old.read_exact fails
        THEN [st EXCEPT !.ok = FALSE]
        ELSE IF ~hdr.ok \/ fend > Len(blob) \/ ~dec.ok  \* truncated or undecodable chunk
        THEN [st EXCEPT !.ok = FALSE, !.opos = st.opos + need]
        ELSE [ok |-> TRUE,
              out |-> st.out \o dec.out,
              written |-> st.written + Len(dec.out),
              opos |-> st.opos + need,
              dpos |-> fend]

RECURSIVE ApplyLoop(_, _, _, _, _, _)
ApplyLoop(st, old, blob, old_len, n, i) ==
    IF i > n \/ ~st.ok THEN st
    ELSE ApplyLoop(ApplyChunk(st, old, blob, old_len, n, i), old, blob, old_len, n, i + 1)

\* apply(old, diff, dest, old_len) with the diff reader at 0-based offset at:
\* ok, the bytes written to dest, the returned count, and the read positions
apply(old, blob, at, old_len) ==
    LET num_chunks == read_u64(blob, at)
    IN  IF ~num_chunks.ok THEN [ApplyStart(at) EXCEPT !.ok = FALSE]
        ELSE ApplyLoop(ApplyStart(at + 8), old, blob, old_len, num_chunks.val, 1)

(***************************************************************************)
(* manifest.rs: the manifest and its MessagePack serialization             *)
(* (rmp_serde: a struct is an array of its fields in declaration order, a  *)
(* tuple and a [u8; 4] are arrays, a u64 below 128 is a positive fixint,   *)
(* u64::MAX is 0xcf followed by eight 0xff bytes, a path is a fixstr).     *)
(* Paths are numbered 1..; path p is the one-letter string chr(96 + p).    *)
(***************************************************************************)
\* u64::MAX, the idx of a DuplicatedFile that has no blob
U64_MAX == 2147483647

MAGIC_BYTES == <<70, 76, 68, 70>>
VERSION_NUMBER_1_0_0_R == <<1, 0, 0, 114>>
VERSION_NUMBER_1_1_0 == <<0, 1, 1, 0>>
VERSION_NUMBER_LATEST == VERSION_NUMBER_1_1_0

\* DiffManifest::default()
DefaultManifest ==
    [version |-> <<0, 0, 0, 0>>,
     untouched_files |-> <<>>,
     deleted_files |-> <<>>,
     new_files |-> <<>>,
     duplicated_files |-> <<>>,
     patched_files |-> <<>>]

\* the reader is not in use
ReaderOff ==
    /\ rpc = "off" /\ rbuf = <<>> /\ rpos = 0 /\ rver = <<>>
    /\ rkind = "none" /\ rman = DefaultManifest

RECURSIVE Flatten(_)
Flatten(ss) == IF ss = <<>> THEN <<>> ELSE Head(ss) \o Flatten(Tail(ss))

MpArray(n) == <<144 + n>>
MpUint(n) == IF n = U64_MAX THEN <<207, 255, 255, 255, 255, 255, 255, 255, 255>>
             ELSE IF n < 128 THEN <<n>>
             ELSE <<207>> \o U64BE(n)
\* the text of a path: the letter chr(96 + p) for p below 160, else the two
\* to four bytes whose big-endian value is p (texts starting with a NUL byte
\* have no code of their own)
PathText(p) ==
    IF p < 160 THEN <<96 + p>>
    ELSE IF p < 65536 THEN BEDigits(p, 2)
    ELSE IF p < 16777216 THEN BEDigits(p, 3)
    ELSE BEDigits(p, 4)

\* a str of up to four bytes is a fixstr: 0xa0 + length, then the bytes
MpStr(p) == <<160 + Len(PathText(p))>> \o PathText(p)
MpStrs(ps) == MpArray(Len(ps)) \o Flatten([k \in 1..Len(ps) |-> MpStr(ps[k])])

MpHashAndPath(e) == MpArray(2) \o MpUint(e.hash) \o MpStr(e.path)
MpNewFile(e) == MpArray(3) \o MpUint(e.hash) \o MpUint(e.index) \o MpStr(e.path)
MpDuplicatedFile(e) ==
    MpArray(4) \o MpUint(e.hash) \o MpUint(e.idx) \o MpStrs(e.old_paths) \o MpStrs(e.new_paths)
MpPatchedFile(e) ==
    MpArray(4) \o MpUint(e.old_hash) \o MpUint(e.new_hash) \o MpUint(e.index) \o MpStr(e.path)

\* DiffManifest::serialize
Serialize(m) ==
    MpArray(6)
    \o MpArray(4) \o m.version
    \o MpArray(Len(m.untouched_files))
    \o Flatten([k \in 1..Len(m.untouched_files) |-> MpHashAndPath(m.untouched_files[k])])
    \o MpArray(Len(m.deleted_files))
    \o Flatten([k \in 1..Len(m.deleted_files) |-> MpHashAndPath(m.deleted_files[k])])
    \o MpArray(Len(m.new_files))
    \o Flatten([k \in 1..Len(m.new_files) |-> MpNewFile(m.new_files[k])])
    \o MpArray(Len(m.duplicated_files))
    \o Flatten([k \in 1..Len(m.duplicated_files) |-> MpDuplicatedFile(m.duplicated_files[k])])
    \o MpArray(Len(m.patched_files))
    \o Flatten([k \in 1..Len(m.patched_files) |-> MpPatchedFile(m.patched_files[k])])

\* Parsers take the buffer and a 0-based offset and give [ok, val, pos].
PFail(pos) == [ok |-> FALSE, val |-> 0, pos |-> pos]
POk(v, pos) == [ok |-> TRUE, val |-> v, pos |-> pos]

PArray(buf, pos) ==
    IF pos < Len(buf) /\ buf[pos + 1] >= 144 /\ buf[pos + 1] <= 159
    THEN POk(buf[pos + 1] - 144, pos + 1) ELSE PFail(pos)

PUint(buf, pos) ==
    IF pos >= Len(buf) THEN PFail(pos)
    ELSE IF buf[pos + 1] < 128 THEN POk(buf[pos + 1], pos + 1)
    ELSE IF buf[pos + 1] = 207 /\ pos + 9 <= Len(buf)
    THEN POk(IF Slice(buf, pos + 1, pos + 9) = [k \in 1..8 |-> 255]
             THEN U64_MAX ELSE FromBE(Slice(buf, pos + 1, pos + 9)), pos + 9)
    ELSE PFail(pos)

PStr(buf, pos) ==
    IF pos + 2 <= Len(buf) /\ buf[pos + 1] = 161 THEN POk(buf[pos + 2] - 96, pos + 2)
    ELSE IF pos < Len(buf) /\ buf[pos + 1] \in 162..164
            /\ pos + 1 + (buf[pos + 1] - 160) <= Len(buf)
    THEN POk(FromBE(Slice(buf, pos + 1, pos + 1 + (buf[pos + 1] - 160))),
             pos + 1 + (buf[pos + 1] - 160))
    ELSE PFail(pos)

\* an array header that must announce n elements
PArrayN(buf, pos, n) ==
    IF pos < Len(buf) /\ buf[pos + 1] = 144 + n THEN POk(n, pos + 1) ELSE PFail(pos)

\* The fields of each serialized record, in order: "u" a u64, "s" a string,
\* "S" an array of strings, "a<n>" the array header of a record of n fields.
Shape(kind) ==
    CASE kind = "ver" -> <<"a4", "u", "u", "u", "u">>
      [] kind = "hp" -> <<"a2", "u", "s">>
      [] kind = "new" -> <<"a3", "u", "u", "s">>
      [] kind = "dup" -> <<"a4", "u", "u", "S", "S">>
      [] kind = "patched" -> <<"a4", "u", "u", "u", "s">>
      [] kind = "str" -> <<"s">>

\* the record parsed from the fields v of a Shape(kind)
MkEntry(kind, v) ==
    CASE kind = "ver" -> <<v[2], v[3], v[4], v[5]>>
      [] kind = "hp" -> [hash |-> v[2], path |-> v[3]]
      [] kind = "new" -> [hash |-> v[2], index |-> v[3], path |-> v[4]]
      [] kind = "dup" -> [hash |-> v[2], idx |-> v[3], old_paths |-> v[4], new_paths |-> v[5]]
      [] kind = "patched" ->
            [old_hash |-> v[2], new_hash |-> v[3], index |-> v[4], path |-> v[5]]
      [] kind = "str" -> v[1]

RECURSIVE PShape(_, _, _, _)
RECURSIVE PShapeK(_, _, _, _)
RECURSIVE PList(_, _, _, _, _)
RECURSIVE PListK(_, _, _, _, _)
RECURSIVE PArrayOf(_, _, _)
RECURSIVE PArrayOfK(_, _, _)
RECURSIVE PToken(_, _, _)

PToken(tok, buf, pos) ==
    IF tok = "u" THEN PUint(buf, pos)
    ELSE IF tok = "s" THEN PStr(buf, pos)
    ELSE IF tok = "S" THEN PArrayOf("str", buf, pos)
    ELSE PArrayN(buf, pos, CASE tok = "a2" -> 2 [] tok = "a3" -> 3 [] tok = "a4" -> 4)

\* the fields of a shape, one after the other
PShape(buf, pos, shape, acc) ==
    IF shape = <<>> THEN POk(acc, pos)
    ELSE PShapeK(PToken(Head(shape), buf, pos), buf, Tail(shape), acc)

PShapeK(r, buf, rest, acc) ==
    IF r.ok THEN PShape(buf, r.pos, rest, Append(acc, r.val)) ELSE PFail(r.pos)

\* n records of one kind
PList(kind, buf, pos, n, acc) ==
    IF n = 0 THEN POk(acc, pos)
    ELSE PListK(kind, PShape(buf, pos, Shape(kind), <<>>), buf, n, acc)

PListK(kind, r, buf, n, acc) ==
    IF r.ok THEN PList(kind, buf, r.pos, n - 1, Append(acc, MkEntry(kind, r.val)))
    ELSE PFail(r.pos)

\* an array of records of one kind
PArrayOf(kind, buf, pos) == PArrayOfK(kind, PArray(buf, pos), buf)

PArrayOfK(kind, h, buf) ==
    IF h.ok THEN PList(kind, buf, h.pos, h.val, <<>>) ELSE PFail(h.pos)

\* the six fields of DiffManifest
ManifestFields == <<"ver", "hp", "hp", "new", "dup", "patched">>

RECURSIVE PFields(_, _, _, _)
RECURSIVE PFieldsK(_, _, _, _)

PFields(buf, pos, kinds, acc) ==
    IF kinds = <<>> THEN POk(acc, pos)
    ELSE IF Head(kinds) = "ver"
    THEN PFieldsK(PList("ver", buf, pos, 1, <<>>), buf, Tail(kinds), acc)
    ELSE PFieldsK(PArrayOf(Head(kinds), buf, pos), buf, Tail(kinds), acc)

PFieldsK(r, buf, rest, acc) ==
    IF r.ok THEN PFields(buf, r.pos, rest, Append(acc, r.val)) ELSE PFail(r.pos)

MkManifest(r) ==
    IF r.ok
    THEN POk([version |-> r.val[1][1],
              untouched_files |-> r.val[2],
              deleted_files |-> r.val[3],
              new_files |-> r.val[4],
              duplicated_files |-> r.val[5],
              patched_files |-> r.val[6]], r.pos)
    ELSE r

\* DiffManifest::deserialize from a reader at offset pos
DeserializeK(h, buf) ==
    IF h.ok THEN MkManifest(PFields(buf, h.pos, ManifestFields, <<>>)) ELSE PFail(h.pos)

Deserialize(buf, pos) == DeserializeK(PArrayN(buf, pos, 6), buf)

\* read_100r: ensure!(manifest.version == VERSION_NUMBER_1_0_0_R)
EnsureVersion100r(m) ==
    IF m.ok /\ m.val.version = VERSION_NUMBER_1_0_0_R THEN m ELSE PFail(m.pos)

\* DiffManifest::read_100r: the reader is at the start of a raw manifest
read_100r(buf, pos) == EnsureVersion100r(Deserialize(buf, pos))

\* read_110: deserialize what the decoder of the take(len) region yields; the
\* decoder buffers the whole region, which leaves the reader at its end
Read110Decoded(dec, fend) ==
    IF dec.ok THEN [Deserialize(dec.out, 0) EXCEPT !.pos = fend] ELSE PFail(fend)

Read110Frame(len, buf, pos) ==
    IF len.ok
    THEN Read110Decoded(
            DecodeRefPrefix(<<>>, Slice(buf, pos + 8, Min(pos + 8 + len.val, Len(buf)))),
            Min(pos + 8 + len.val, Len(buf)))
    ELSE PFail(pos)

\* DiffManifest::read_110: the length, then a zstd frame of that many bytes
read_110(buf, pos) == Read110Frame(read_u64(buf, pos), buf, pos)

\* verify_and_read_ver without the seek_relative(-4) of the raw-manifest branch
verify_and_read_ver_NoRewind(buf) ==
    LET magic == Slice(buf, 0, 4)
        ver   == Slice(buf, 4, 8)
    IN  IF Len(buf) < 4 \/ magic # MAGIC_BYTES THEN PFail(Min(Len(buf), 4))
        ELSE IF Len(buf) < 8 THEN PFail(Len(buf))
        ELSE IF ver[1] = 0
        THEN (IF ver = VERSION_NUMBER_1_1_0 THEN POk(ver, 8) ELSE PFail(8))
        ELSE POk(VERSION_NUMBER_1_0_0_R, 8)

\* DiffManifest::verify_and_read_ver on a reader at offset 0
verify_and_read_ver(buf) ==
    LET magic == Slice(buf, 0, 4)
        ver   == Slice(buf, 4, 8)
    IN  IF Len(buf) < 4 \/ magic # MAGIC_BYTES THEN PFail(Min(Len(buf), 4))
        ELSE IF Len(buf) < 8 THEN PFail(Len(buf))
        ELSE IF ver[1] = 0
        THEN (IF ver = VERSION_NUMBER_1_1_0 THEN POk(ver, 8) ELSE PFail(8))
        ELSE POk(VERSION_NUMBER_1_0_0_R, 4)

\* DiffManifest::read_from
ReadFromVer(ver, buf) ==
    IF ~ver.ok THEN ver
    ELSE IF ver.val = VERSION_NUMBER_1_0_0_R THEN read_100r(buf, ver.pos)
    ELSE read_110(buf, ver.pos)

read_from(buf) == ReadFromVer(verify_and_read_ver(buf), buf)

(***************************************************************************)
(* hash.rs: XXHasher.  The 64-bit hash is modelled by a polynomial hash    *)
(* that is collision-free on the byte strings the model hashes.            *)
(***************************************************************************)
\* XXHasher::default()
XXHasherDefault == 1

\* XXHasher::write(buf): fold the bytes into the state
RECURSIVE XXHasherWrite(_, _)
XXHasherWrite(h, buf) ==
    IF buf = <<>> THEN h
    ELSE XXHasherWrite((h * 64 + buf[1] + 1) % 16777213, Tail(buf))

\* hash_stream: copy the whole stream into a fresh hasher, finish()
hash_stream(s) == XXHasherWrite(XXHasherDefault, s)

(***************************************************************************)
(* Directory trees.  A tree is a function from the relative paths of its   *)
(* regular files to their contents; directories exist implicitly.          *)
(***************************************************************************)
Paths == 1..NumPaths

\* the file contents that occur: an empty file, a one-byte file, and a file
\* longer than one chunk
FileContents == {<<>>, <<1>>, <<1, 2, 1>>}

Trees == UNION {[S -> FileContents] : S \in SUBSET Paths}

EmptyTree == <<>>

\* an update of a finite map
MapPut(f, k, v) == [x \in DOMAIN f \cup {k} |-> IF x = k THEN v ELSE f[x]]

MapRemove(f, k) == [x \in DOMAIN f \ {k} |-> f[x]]

\* hash_file(root.join(path))
hash_file(tree, path) ==
    IF path \in DOMAIN tree THEN [ok |-> TRUE, val |-> hash_stream(tree[path])]
    ELSE [ok |-> FALSE, val |-> 0]

(***************************************************************************)
(* diffing.rs: DiffingDiff                                                 *)
(***************************************************************************)
\* DiffingDiff::new(old_root, new_root)
DiffingDiffNew ==
    [blobs_new |-> <<>>, blobs_patch |-> <<>>, files |-> <<>>,
     file_paths_old |-> <<>>, file_paths_new |-> <<>>]

\* add_file, the hash being known: push the path to an existing entry of
\* `files` or insert a new entry, and record the path in file_paths_*
AddHashed(d, in_new, path, hash) ==
    LET state == IF hash \in DOMAIN d.files THEN d.files[hash]
                 ELSE [paths_old |-> <<>>, paths_new |-> <<>>]
        pushed == IF in_new THEN [state EXCEPT !.paths_new = Append(@, path)]
                  ELSE [state EXCEPT !.paths_old = Append(@, path)]
    IN  IF in_new
        THEN [d EXCEPT !.files = MapPut(@, hash, pushed),
                       !.file_paths_new = MapPut(@, path, hash)]
        ELSE [d EXCEPT !.files = MapPut(@, hash, pushed),
                       !.file_paths_old = MapPut(@, path, hash)]

add_fileK(d, in_new, path, h) ==
    IF h.ok THEN [ok |-> TRUE, d |-> AddHashed(d, in_new, path, h.val)]
    ELSE [ok |-> FALSE, d |-> d]

\* add_file without the contains_key check
add_file_Unchecked(d, in_new, path, tree) ==
    add_fileK(d, in_new, path, hash_file(tree, path))

\* DiffingDiff::add_file(in_new, path) on the tree under the chosen root
add_file(d, in_new, path, tree) ==
    IF path \in DOMAIN (IF in_new THEN d.file_paths_new ELSE d.file_paths_old)
    THEN [ok |-> FALSE, d |-> d]
    ELSE add_fileK(d, in_new, path, hash_file(tree, path))

\* step 1 without the push: the unchanged file is left out of the manifest
GenUntouched_Skipped(acc, hash, entry) == acc

\* generate_manifest step 1: manifest.untouched_files.push((hash, paths_old[0]))
GenUntouched(acc, hash, entry) ==
    [acc EXCEPT !.manifest.untouched_files =
                    Append(@, [hash |-> hash, path |-> entry.paths_old[1]])]

\* generate_manifest step 2: a DuplicatedFile; with no old path it takes
\* i = blobs_patch.len() and pushes paths_new[0] to blobs_patch
GenDuplicated(acc, hash, entry) ==
    IF entry.paths_old = <<>>
    THEN [acc EXCEPT !.manifest.duplicated_files =
                         Append(@, [hash |-> hash, idx |-> Len(acc.blobs_patch),
                                    old_paths |-> entry.paths_old,
                                    new_paths |-> entry.paths_new]),
                     !.blobs_patch = Append(@, entry.paths_new[1])]
    ELSE [acc EXCEPT !.manifest.duplicated_files =
                         Append(@, [hash |-> hash, idx |-> U64_MAX,
                                    old_paths |-> entry.paths_old,
                                    new_paths |-> entry.paths_new])]

\* step 3 without the lookup in file_paths_old: always a NewFile
GenNewOrPatched_AlwaysNew(acc, d, hash, path) ==
    [acc EXCEPT !.manifest.new_files =
                    Append(@, [hash |-> hash, index |-> Len(acc.blobs_new), path |-> path]),
                !.blobs_new = Append(@, path)]

\* generate_manifest step 3: a PatchedFile if the path was scanned in the old
\* tree, else a NewFile
GenNewOrPatched(acc, d, hash, path) ==
    IF path \in DOMAIN d.file_paths_old
    THEN [acc EXCEPT !.manifest.patched_files =
                         Append(@, [old_hash |-> d.file_paths_old[path], new_hash |-> hash,
                                    index |-> Len(acc.blobs_patch), path |-> path]),
                     !.blobs_patch = Append(@, path)]
    ELSE [acc EXCEPT !.manifest.new_files =
                         Append(@, [hash |-> hash, index |-> Len(acc.blobs_new),
                                    path |-> path]),
                     !.blobs_new = Append(@, path)]

\* generate_manifest step 4: a deleted file unless the path was scanned in the
\* new tree
GenDeleted(acc, d, hash, path) ==
    IF path \notin DOMAIN d.file_paths_new
    THEN [acc EXCEPT !.manifest.deleted_files = Append(@, [hash |-> hash, path |-> path])]
    ELSE acc

\* the body of generate_manifest's loop for one (hash, entry) of self.files
GenEntry(acc, d, hash, entry) ==
    IF Len(entry.paths_old) = 1 /\ Len(entry.paths_new) = 1
       /\ entry.paths_new[1] = entry.paths_old[1]
    THEN GenUntouched(acc, hash, entry)
    ELSE IF (Len(entry.paths_new) = 1 /\ Len(entry.paths_old) = 1)
            \/ Len(entry.paths_new) > 1 \/ Len(entry.paths_old) > 1
    THEN GenDuplicated(acc, hash, entry)
    ELSE IF entry.paths_old = <<>>
    THEN GenNewOrPatched(acc, d, hash, entry.paths_new[1])
    ELSE IF entry.paths_new = <<>>
    THEN GenDeleted(acc, d, hash, entry.paths_old[1])
    ELSE [acc EXCEPT !.ok = FALSE]

\* the least key of a BTreeMap's remaining keys
SetMin(S) == CHOOSE x \in S : \A y \in S : x <= y

\* for (hash, entry) in &self.files: keys in ascending order
RECURSIVE GenLoop(_, _, _)
RECURSIVE GenLoopK(_, _, _, _)
GenLoop(acc, d, todo) ==
    IF todo = {} \/ ~acc.ok THEN acc ELSE GenLoopK(acc, d, todo, SetMin(todo))

GenLoopK(acc, d, todo, hash) ==
    GenLoop(GenEntry(acc, d, hash, d.files[hash]), d, todo \ {hash})

\* DiffingDiff::generate_manifest: the manifest and the blob lists of self
\* after the call (it appends to the lists self already holds)
generate_manifest(d) ==
    GenLoop([ok |-> TRUE, manifest |-> DefaultManifest,
             blobs_new |-> d.blobs_new, blobs_patch |-> d.blobs_patch],
            d, DOMAIN d.files)

\* write_to without the seek back: the length lands after the frame
WriteBackfilled_NoSeekBack(w, frame) ==
    WriteAll(WriteAll(SeekRelative(w, 8), frame), U64BE(Len(frame)))

\* write_to: seek 8 forward, write the frame, go back and write its length,
\* return to the end of the frame
WriteBackfilled(w, frame) ==
    LET w1 == SeekRelative(w, 8)
        w2 == WriteAll(w1, frame)
        w3 == SeekRelative(w2, 0 - Len(frame) - 8)
        w4 == WriteAll(w3, U64BE(Len(frame)))
    IN  SeekRelative(w4, Len(frame))

\* write_to, one iteration of `for path in &self.blobs_new`; st is
\* [ok, w, offs_new, offs_patch], the offsets being where each blob begins
WriteNewBlob(st, treeN, path) ==
    IF path \notin DOMAIN treeN THEN [st EXCEPT !.ok = FALSE]
    ELSE [st EXCEPT !.w = WriteBackfilled(@, EncodeRefPrefix(<<>>, treeN[path])),
                    !.offs_new = Append(@, st.w.pos)]

RECURSIVE WriteNewBlobs(_, _, _, _)
WriteNewBlobs(st, treeN, blobs, i) ==
    IF i > Len(blobs) \/ ~st.ok THEN st
    ELSE WriteNewBlobs(WriteNewBlob(st, treeN, blobs[i]), treeN, blobs, i + 1)

\* write_to, one iteration of `for p in &self.blobs_patch`
WritePatchBlob(st, treeO, treeN, path) ==
    IF path \notin DOMAIN treeO \/ path \notin DOMAIN treeN THEN [st EXCEPT !.ok = FALSE]
    ELSE [st EXCEPT !.w = diff(treeO[path], treeN[path], @),
                    !.offs_patch = Append(@, st.w.pos)]

RECURSIVE WritePatchBlobs(_, _, _, _, _)
WritePatchBlobs(st, treeO, treeN, blobs, i) ==
    IF i > Len(blobs) \/ ~st.ok THEN st
    ELSE WritePatchBlobs(WritePatchBlob(st, treeO, treeN, blobs[i]), treeO, treeN, blobs, i + 1)

\* write_to: the count of a blob array
WriteCount(st, n) == IF st.ok THEN [st EXCEPT !.w = WriteAll(@, U64BE(n))] ELSE st

\* write_to: magic, version, and room for the manifest length
WriteHeader ==
    WriteAll(WriteAll(WriteAll(NewWriter, MAGIC_BYTES), VERSION_NUMBER_LATEST),
             [k \in 1..8 |-> 0])

\* write_to after generate_manifest returned g: the compressed manifest with
\* its backfilled length, then the two blob arrays
WriteToK(g, treeO, treeN) ==
    IF ~g.ok
    THEN [ok |-> FALSE, w |-> WriteHeader, offs_new |-> <<>>, offs_patch |-> <<>>]
    ELSE WritePatchBlobs(
            WriteCount(
                WriteNewBlobs(
                    WriteCount(
                        [ok |-> TRUE,
                         w |-> WriteBackfilled(SeekRelative(WriteHeader, -8),
                                               EncodeRefPrefix(<<>>, Serialize(g.manifest))),
                         offs_new |-> <<>>, offs_patch |-> <<>>],
                        Len(g.blobs_new)),
                    treeN, g.blobs_new, 1),
                Len(g.blobs_patch)),
            treeO, treeN, g.blobs_patch, 1)

\* DiffingDiff::write_to into an empty writer: [ok, w, offs_new, offs_patch]
write_to(d, treeO, treeN) == WriteToK(generate_manifest(d), treeO, treeN)

(***************************************************************************)
(* applying.rs: read_diff_from                                             *)
(***************************************************************************)
\* the loop over the new blobs: r is [ok, pos, blobs_new, blobs_patch]
RECURSIVE ReadNewBlobs(_, _, _)
RECURSIVE ReadNewBlobsK(_, _, _, _)
ReadNewBlobs(r, buf, n) ==
    IF n = 0 \/ ~r.ok THEN r ELSE ReadNewBlobsK(r, buf, n, read_u64(buf, r.pos))

ReadNewBlobsK(r, buf, n, len) ==
    IF ~len.ok THEN [r EXCEPT !.ok = FALSE, !.blobs_new = Append(@, r.pos)]
    ELSE ReadNewBlobs([r EXCEPT !.pos = r.pos + 8 + len.val,
                                !.blobs_new = Append(@, r.pos)], buf, n - 1)

\* the loop over the chunks of one patch blob
RECURSIVE SkipChunks(_, _, _)
RECURSIVE SkipChunksK(_, _, _, _)
SkipChunks(r, buf, count) ==
    IF count = 0 \/ ~r.ok THEN r ELSE SkipChunksK(r, buf, count, read_u64(buf, r.pos))

SkipChunksK(r, buf, count, len) ==
    IF ~len.ok THEN [r EXCEPT !.ok = FALSE]
    ELSE SkipChunks([r EXCEPT !.pos = r.pos + 8 + len.val], buf, count - 1)

\* the loop over the patch blobs
RECURSIVE ReadPatchBlobs(_, _, _)
RECURSIVE ReadPatchBlobsK(_, _, _, _)
ReadPatchBlobs(r, buf, n) ==
    IF n = 0 \/ ~r.ok THEN r ELSE ReadPatchBlobsK(r, buf, n, read_u64(buf, r.pos))

ReadPatchBlobsK(r, buf, n, count) ==
    IF ~count.ok THEN [r EXCEPT !.ok = FALSE, !.blobs_patch = Append(@, r.pos)]
    ELSE ReadPatchBlobs(
            SkipChunks([r EXCEPT !.pos = r.pos + 8, !.blobs_patch = Append(@, r.pos)],
                       buf, count.val),
            buf, n - 1)

\* the patch-blob count at r.pos, then the loop over the patch blobs
ReadPatchSection(r, buf, cnt) ==
    IF ~r.ok THEN r
    ELSE IF ~cnt.ok THEN [r EXCEPT !.ok = FALSE]
    ELSE ReadPatchBlobs([r EXCEPT !.pos = r.pos + 8], buf, cnt.val)

ReadPatchSectionAt(r, buf) == ReadPatchSection(r, buf, read_u64(buf, r.pos))

\* the new-blob count at r.pos, the loop over the new blobs, the patch section
ReadNewSection(r, buf, cnt) ==
    IF ~cnt.ok THEN [r EXCEPT !.ok = FALSE]
    ELSE ReadPatchSectionAt(ReadNewBlobs([r EXCEPT !.pos = r.pos + 8], buf, cnt.val), buf)

ReadDiffFromK(m, buf) ==
    IF ~m.ok
    THEN [ok |-> FALSE, pos |-> m.pos, manifest |-> DefaultManifest,
          blobs_new |-> <<>>, blobs_patch |-> <<>>]
    ELSE ReadNewSection([ok |-> TRUE, pos |-> m.pos, manifest |-> m.val,
                         blobs_new |-> <<>>, blobs_patch |-> <<>>],
                        buf, read_u64(buf, m.pos))

\* read_diff_from: the ApplyingDiff [manifest, blobs_new, blobs_patch], whether
\* it was returned, and the reader's final position
read_diff_from(buf) == ReadDiffFromK(read_from(buf), buf)

(***************************************************************************)
(* applying.rs: ApplyingDiff::apply.  The file system fs holds the tree    *)
(* under old_root and the tree under new_root.  A step of a worker gives   *)
(* [fs, errs, wrote, panic]: the file system after it, the errors it       *)
(* reports, the <<root, path, k>> it created or wrote (k numbers the       *)
(* parallel closures of one entry), and whether it panicked.               *)
(***************************************************************************)
\* a write that lands under old_root whatever root the caller joined
FsWrite_UnderOldRoot(fs, root, path, bytes) == [fs EXCEPT !.old = MapPut(@, path, bytes)]

\* create_file / File::create + write: the file at root/path holds `bytes`
FsWrite(fs, root, path, bytes) == [fs EXCEPT ![root] = MapPut(@, path, bytes)]

StepOk(fs, wrote) == [fs |-> fs, errs |-> <<>>, wrote |-> wrote, panic |-> FALSE]
StepErr(fs, wrote, err) == [fs |-> fs, errs |-> <<err>>, wrote |-> wrote, panic |-> FALSE]
StepPanic(fs, wrote) == [fs |-> fs, errs |-> <<>>, wrote |-> wrote, panic |-> TRUE]

\* copy_rl_hash(src_root/src, dst_root/dst): reflink or copy, the hash of the
\* bytes copied; fails when the source cannot be opened
copy_rl_hash(fs, src_root, src, dst_root, dst) ==
    IF src \notin DOMAIN fs[src_root] THEN [ok |-> FALSE, val |-> 0, fs |-> fs]
    ELSE [ok |-> TRUE, val |-> hash_stream(fs[src_root][src]),
          fs |-> FsWrite(fs, dst_root, dst, fs[src_root][src])]

\* copy_rl(src_root/src, dst_root/dst): reflink or std::fs::copy, no hash
copy_rl(fs, src_root, src, dst_root, dst) ==
    IF src \notin DOMAIN fs[src_root] THEN [ok |-> FALSE, fs |-> fs]
    ELSE [ok |-> TRUE, fs |-> FsWrite(fs, dst_root, dst, fs[src_root][src])]

\* the untouched task's closure for entry (h, p), its copy having returned c
UntouchedChecked(c, fs, h, p) ==
    IF ~c.ok THEN StepErr(fs, {}, <<"untouched", p, "copy failed">>)
    ELSE IF c.val # h THEN StepErr(c.fs, {<<"new", p, 0>>}, <<"untouched", p, "was different">>)
    ELSE StepOk(c.fs, {<<"new", p, 0>>})

UntouchedFile(fs, e) ==
    UntouchedChecked(copy_rl_hash(fs, "old", e.path, "new", e.path), fs, e.hash, e.path)

\* the bytes of the blob whose length header is at offset `blob` of the
\* diff map; ok = FALSE where the slice indexing panics
BlobAt(diff_map, blob) ==
    IF blob + 8 > Len(diff_map) THEN [ok |-> FALSE, bytes |-> <<>>]
    ELSE IF blob + 8 + FromBE(Slice(diff_map, blob, blob + 8)) > Len(diff_map)
    THEN [ok |-> FALSE, bytes |-> <<>>]
    ELSE [ok |-> TRUE,
          bytes |-> Slice(diff_map, blob + 8,
                          blob + 8 + FromBE(Slice(diff_map, blob, blob + 8)))]

\* the new task's closure, the file being created: decompress and check
NewDecoded(fs1, nf, b, dec) ==
    IF ~b.ok THEN StepPanic(fs1, {<<"new", nf.path, 0>>})
    ELSE IF ~dec.ok
    THEN StepErr(fs1, {<<"new", nf.path, 0>>}, <<"new", nf.path, "failed to decompress">>)
    ELSE IF hash_stream(dec.out) # nf.hash
    THEN StepErr(FsWrite(fs1, "new", nf.path, dec.out), {<<"new", nf.path, 0>>},
                 <<"new", nf.path, "was different">>)
    ELSE StepOk(FsWrite(fs1, "new", nf.path, dec.out), {<<"new", nf.path, 0>>})

NewBlob(fs, nf, b) ==
    NewDecoded(FsWrite(fs, "new", nf.path, <<>>), nf, b, DecodeRefPrefix(<<>>, b.bytes))

\* the new task's closure for entry nf
NewFile(fs, ad, diff_map, nf) ==
    IF nf.index >= Len(ad.blobs_new)
    THEN StepErr(fs, {}, <<"new", nf.path, "out-of-range index">>)
    ELSE NewBlob(fs, nf, BlobAt(diff_map, ad.blobs_new[nf.index + 1]))

\* the patched task's closure once zstddiff::apply returned r
PatchApplied(fs1, pf, src, r) ==
    IF ~r.ok
    THEN StepErr(FsWrite(fs1, "new", pf.path, r.out), {<<"new", pf.path, 0>>},
                 <<"patched", pf.path, "failed to apply diff">>)
    ELSE IF hash_stream(Slice(src, 0, r.opos)) # pf.old_hash
    THEN StepErr(FsWrite(fs1, "new", pf.path, r.out), {<<"new", pf.path, 0>>},
                 <<"patched", pf.path, "source was different">>)
    ELSE IF hash_stream(r.out) # pf.new_hash
    THEN StepErr(FsWrite(fs1, "new", pf.path, r.out), {<<"new", pf.path, 0>>},
                 <<"patched", pf.path, "written was different">>)
    ELSE StepOk(FsWrite(fs1, "new", pf.path, r.out), {<<"new", pf.path, 0>>})

\* the patched task's closure for entry pf
PatchedFile(fs, ad, diff_map, pf) ==
    IF pf.path \notin DOMAIN fs.old
    THEN StepErr(fs, {}, <<"patched", pf.path, "failed to open">>)
    ELSE IF pf.index >= Len(ad.blobs_patch)
    THEN StepErr(FsWrite(fs, "new", pf.path, <<>>), {<<"new", pf.path, 0>>},
                 <<"patched", pf.path, "out-of-range index">>)
    ELSE PatchApplied(FsWrite(fs, "new", pf.path, <<>>), pf, fs.old[pf.path],
                      apply(fs.old[pf.path], diff_map, ad.blobs_patch[pf.index + 1],
                            Len(fs.old[pf.path])))

\* the duplicated task, first par_iter of an entry: one error per old path
\* that cannot be opened; a hash that differs yields no error
RECURSIVE DupOldChecks(_, _, _)
DupOldChecks(fs, d, k) ==
    IF k > Len(d.old_paths) THEN <<>>
    ELSE (IF d.old_paths[k] \in DOMAIN fs.old THEN <<>>
          ELSE <<<<"duplicated", d.old_paths[k], "failed to open old file">>>>)
         \o DupOldChecks(fs, d, k + 1)

\* the duplicated task: copy_rl(old_root/old_paths[0], new_root/new_paths[k])
\* for the new paths from index k on; old_paths[0] panics on an empty list
RECURSIVE DupCopies(_, _, _)
RECURSIVE DupCopiesK(_, _, _, _)
DupCopies(st, d, k) ==
    IF k > Len(d.new_paths) \/ st.panic THEN st
    ELSE IF d.old_paths = <<>> THEN [st EXCEPT !.panic = TRUE]
    ELSE DupCopiesK(st, d, k, copy_rl(st.fs, "old", d.old_paths[1], "new", d.new_paths[k]))

DupCopiesK(st, d, k, c) ==
    DupCopies(IF c.ok
              THEN [st EXCEPT !.fs = c.fs, !.wrote = @ \cup {<<"new", d.new_paths[k], k>>}]
              ELSE [st EXCEPT !.errs = Append(@, <<"duplicated", d.new_paths[k],
                                                   "failed to copy">>)],
              d, k + 1)

\* the duplicated task, idx != u64::MAX: the blob's bytes are copied as they
\* are into new_paths[0] and hashed, then the other new paths are copied
DupBlob(fs, d, b) ==
    IF ~b.ok \/ d.new_paths = <<>> THEN StepPanic(fs, {})
    ELSE IF hash_stream(b.bytes) # d.hash
    THEN StepErr(FsWrite(fs, "new", d.new_paths[1], b.bytes), {<<"new", d.new_paths[1], 1>>},
                 <<"duplicated", d.new_paths[1], "does not match expected data">>)
    ELSE DupCopies(StepOk(FsWrite(fs, "new", d.new_paths[1], b.bytes),
                          {<<"new", d.new_paths[1], 1>>}), d, 2)

DupChecked(fs, ad, diff_map, d, checks) ==
    IF checks # <<>> THEN [fs |-> fs, errs |-> checks, wrote |-> {}, panic |-> FALSE]
    ELSE IF d.idx = U64_MAX THEN DupCopies(StepOk(fs, {}), d, 1)
    ELSE IF d.idx >= Len(ad.blobs_new)
    THEN (IF d.new_paths = <<>> THEN StepPanic(fs, {})
          ELSE StepErr(fs, {}, <<"duplicated", d.new_paths[1], "out-of-range index">>))
    ELSE DupBlob(fs, d, BlobAt(diff_map, ad.blobs_new[d.idx + 1]))

\* the duplicated task's loop body for entry d
DuplicatedFile(fs, ad, diff_map, d) ==
    DupChecked(fs, ad, diff_map, d, DupOldChecks(fs, d, 1))

\* the closures apply may spawn
TaskNames == {"untouched", "duplicated", "new", "patched"}

\* a closure that was not spawned
NoTask == [pc |-> "none", todo |-> {}, i |-> 0, checks |-> {}, pending |-> <<>>,
           snap |-> <<>>]

NotWritten == [ok |-> FALSE, buf |-> <<>>, pos |-> 0, offs_new |-> <<>>,
               offs_patch |-> <<>>, manifest |-> DefaultManifest]

\* ApplyingDiff::default()
ApplyingDiffDefault ==
    [ok |-> FALSE, pos |-> 0, manifest |-> DefaultManifest,
     blobs_new |-> <<>>, blobs_patch |-> <<>>]

\* apply has not been entered
ApplyOff ==
    /\ fsys = [old |-> EmptyTree, new |-> EmptyTree] /\ old0 = EmptyTree
    /\ writes = {} /\ task = [t \in TaskNames |-> NoTask]
    /\ errs = <<>> /\ mutex = "free" /\ reported = {}

\* neither the builder nor apply is in use
PipeOff ==
    /\ ppc = "off" /\ old_root = EmptyTree /\ new_root = EmptyTree /\ dd = DiffingDiffNew
    /\ wr = NotWritten /\ adiff = ApplyingDiffDefault
    /\ ApplyOff

(***************************************************************************)
(* The codec alone: diff(old, new) into an empty cursor, then apply on the *)
(* rewound cursors, as tests::test_zstddiff_small does.                    *)
(***************************************************************************)
Streams == SeqsUpTo(1..MaxByte, MaxLen)

CodecOff ==
    /\ zpc = "off" /\ zold = <<>> /\ znew = <<>> /\ zdest = NewWriter
    /\ zn = 0 /\ zi = 0 /\ zout = <<>> /\ zwritten = 0 /\ zopos = 0 /\ zdpos = 0

CodecInit ==
    /\ zpc = "start"
    /\ zold \in Streams
    /\ znew \in Streams
    /\ zdest = NewWriter
    /\ zn = 0 /\ zi = 0 /\ zout = <<>> /\ zwritten = 0 /\ zopos = 0 /\ zdpos = 0

\* diff(): compute the chunk count and write it
ZDiffBegin ==
    /\ zpc = "start"
    /\ zn' = calc_chunk_num(Len(zold))
    /\ zdest' = WriteAll(zdest, U64BE(zn'))
    /\ zi' = 1
    /\ zpc' = "diff"
    /\ UNCHANGED <<zold, znew, zout, zwritten, zopos, zdpos>>

\* diff(): one chunk
ZDiffChunk ==
    /\ zpc = "diff" /\ zi <= zn
    /\ zdest' = DiffChunk(zdest, zold, znew, zn, zi)
    /\ zi' = zi + 1
    /\ UNCHANGED <<zpc, zold, znew, zn, zout, zwritten, zopos, zdpos>>

\* diff() returns Ok(())
ZDiffEnd ==
    /\ zpc = "diff" /\ zi > zn
    /\ zpc' = "diffed"
    /\ UNCHANGED <<zold, znew, zdest, zn, zi, zout, zwritten, zopos, zdpos>>

\* apply(): read the chunk count from the rewound diff
ZApplyBegin ==
    /\ zpc = "diffed"
    /\ LET num_chunks == read_u64(zdest.buf, 0)
       IN  /\ zpc' = IF num_chunks.ok THEN "apply" ELSE "err"
           /\ zn' = num_chunks.val
    /\ zi' = 1
    /\ zdpos' = 8
    /\ UNCHANGED <<zold, znew, zdest, zout, zwritten, zopos>>

\* apply(): one chunk
ZApplyChunk ==
    /\ zpc = "apply" /\ zi <= zn
    /\ LET st == ApplyChunk([ok |-> TRUE, out |-> zout, written |-> zwritten,
                             opos |-> zopos, dpos |-> zdpos],
                            zold, zdest.buf, Len(zold), zn, zi)
       IN  /\ zpc' = IF st.ok THEN "apply" ELSE "err"
           /\ zout' = st.out
           /\ zwritten' = st.written
           /\ zopos' = st.opos
           /\ zdpos' = st.dpos
    /\ zi' = zi + 1
    /\ UNCHANGED <<zold, znew, zdest, zn>>

\* apply() returns Ok(written)
ZApplyEnd ==
    /\ zpc = "apply" /\ zi > zn
    /\ zpc' = "done"
    /\ UNCHANGED <<zold, znew, zdest, zn, zi, zout, zwritten, zopos, zdpos>>

CodecNext ==
    \/ ZDiffBegin /\ UNCHANGED <<readerVars, pipeVars, cliVars, auxVars>>
    \/ ZDiffChunk /\ UNCHANGED <<readerVars, pipeVars, cliVars, auxVars>>
    \/ ZDiffEnd /\ UNCHANGED <<readerVars, pipeVars, cliVars, auxVars>>
    \/ ZApplyBegin /\ UNCHANGED <<readerVars, pipeVars, cliVars, auxVars>>
    \/ ZApplyChunk /\ UNCHANGED <<readerVars, pipeVars, cliVars, auxVars>>
    \/ ZApplyEnd /\ UNCHANGED <<readerVars, pipeVars, cliVars, auxVars>>

InitCodec == CodecInit /\ ReaderOff /\ PipeOff /\ CliOff /\ AuxOff

SpecCodec == InitCodec /\ [][CodecNext]_vars

(***************************************************************************)
(* The codec on streams whose lengths reach past the integers an f64       *)
(* represents exactly (2^53 in the source, 2^MantissaBits here); only the  *)
(* lengths matter, every byte is 1.                                        *)
(***************************************************************************)
LongStreams == {[k \in 1..len |-> 1] : len \in 0..(Pow2(MantissaBits) + 3)}

ChunksInit ==
    /\ zpc = "start"
    /\ zold \in LongStreams
    /\ znew \in LongStreams
    /\ zdest = NewWriter
    /\ zn = 0 /\ zi = 0 /\ zout = <<>> /\ zwritten = 0 /\ zopos = 0 /\ zdpos = 0

InitChunks == ChunksInit /\ ReaderOff /\ PipeOff /\ CliOff /\ AuxOff

SpecChunks == InitChunks /\ [][CodecNext]_vars

\* C2: apply(old, diff(old, new), |old|) writes exactly the bytes of new and
\* returns |new|, for every old and new stream.
C2_RoundTrip ==
    zpc \in {"done", "err"} => (zpc = "done" /\ zout = znew /\ zwritten = Len(znew))

(***************************************************************************)
(* read_from on arbitrary headers: a magic, four bytes at offset 4, and a  *)
(* tail that completes a raw 1.0.0-r manifest, a raw manifest with another *)
(* version, or a length-prefixed compressed manifest; possibly cut short.  *)
(***************************************************************************)
Magics == {MAGIC_BYTES, <<70, 76, 68, 71>>, <<0, 76, 68, 70>>}
TagBytes == {0, 1, 114, 148, 150}

\* Serialize(m) of a legacy manifest with no entries, from its 5th byte on
RawTail(v3, v4) == <<v3, v4>> \o [k \in 1..5 |-> 144]

CompressedManifest(m) ==
    LET frame == EncodeRefPrefix(<<>>, Serialize(m))
    IN  U64BE(Len(frame)) \o frame

Tails == {<<>>, RawTail(0, 114), RawTail(0, 0), RawTail(1, 0),
          CompressedManifest(DefaultManifest),
          CompressedManifest([DefaultManifest EXCEPT !.version = VERSION_NUMBER_1_0_0_R])}

\* how many bytes the input may be cut short by
Cuts == {0, 1, 3}

ReaderInit ==
    /\ rpc = "start"
    /\ \E magic \in Magics, tag \in [1..4 -> TagBytes], tail \in Tails, cut \in Cuts :
          LET full == magic \o tag \o tail
          IN  rbuf = SubSeq(full, 1, Len(full) - cut)
    /\ rpos = 0 /\ rver = <<>> /\ rkind = "none" /\ rman = DefaultManifest

RVerified(ver) ==
    /\ rpc' = IF ver.ok THEN "versioned" ELSE "rejected"
    /\ rver' = IF ver.ok THEN ver.val ELSE <<>>
    /\ rpos' = ver.pos

\* the manifest reader returned m
RReturned(m) ==
    /\ rpc' = IF m.ok THEN "accepted" ELSE "rejected"
    /\ rman' = IF m.ok THEN m.val ELSE rman
    /\ rpos' = m.pos

\* read_from: let ver = Self::verify_and_read_ver(&mut reader)?
RVerify ==
    /\ rpc = "start"
    /\ RVerified(verify_and_read_ver(rbuf))
    /\ UNCHANGED <<rbuf, rkind, rman>>

\* read_from: ver == VERSION_NUMBER_1_0_0_R, Self::read_100r(reader)
RRead100r ==
    /\ rpc = "versioned" /\ rver = VERSION_NUMBER_1_0_0_R
    /\ RReturned(read_100r(rbuf, rpos))
    /\ rkind' = "raw"
    /\ UNCHANGED <<rbuf, rver>>

\* read_from: otherwise, Self::read_110(reader)
RRead110 ==
    /\ rpc = "versioned" /\ rver # VERSION_NUMBER_1_0_0_R
    /\ RReturned(read_110(rbuf, rpos))
    /\ rkind' = "compressed"
    /\ UNCHANGED <<rbuf, rver>>

ReaderNext ==
    \/ RVerify /\ UNCHANGED <<codecVars, pipeVars, cliVars, auxVars>>
    \/ RRead100r /\ UNCHANGED <<codecVars, pipeVars, cliVars, auxVars>>
    \/ RRead110 /\ UNCHANGED <<codecVars, pipeVars, cliVars, auxVars>>

InitReader == ReaderInit /\ CodecOff /\ PipeOff /\ CliOff /\ AuxOff

SpecReader == InitReader /\ [][ReaderNext]_vars

\* C9: read_from rejects a wrong magic; with a zero byte at offset 4 it goes
\* on (at offset 8, to the compressed manifest) only for the tag 00 01 01 00;
\* with a non-zero byte there it rewinds to offset 4, parses a raw manifest
\* and accepts it only if the version stored in it is 01 00 00 'r'.
C9_ReadFrom ==
    LET past == rpc \in {"versioned", "accepted"} \/ rkind # "none"
    IN  /\ (Len(rbuf) < 4 \/ SubSeq(rbuf, 1, 4) # <<70, 76, 68, 70>>) => ~past
        /\ (past /\ rbuf[5] = 0) =>
              /\ SubSeq(rbuf, 5, 8) = <<0, 1, 1, 0>>
              /\ rpc = "versioned" => rpos = 8
              /\ rkind \in {"none", "compressed"}
        /\ (past /\ rbuf[5] # 0) =>
              /\ rpc = "versioned" => rpos = 4
              /\ rkind \in {"none", "raw"}
              /\ rpc = "accepted" =>
                    /\ rman.version = <<1, 0, 0, 114>>
                    /\ Serialize(rman) = SubSeq(rbuf, 5, 4 + Len(Serialize(rman)))
        /\ (Len(rbuf) >= 8 /\ SubSeq(rbuf, 1, 4) = <<70, 76, 68, 70>> /\ rbuf[5] = 0) =>
              IF SubSeq(rbuf, 5, 8) = <<0, 1, 1, 0>>
              THEN rpc = "rejected" => rkind = "compressed"
              ELSE rpc \in {"start", "rejected"} /\ rkind = "none"

\* C9 witnesses: a raw manifest accepted after the rewind, and a compressed one
C9_Witness ==
    /\ rpc = "accepted" /\ rkind = "raw" /\ rbuf[5] # 0 /\ rpos = Len(rbuf)

(***************************************************************************)
(* The whole pipeline: scan_to_diff on two trees, write_to into a cursor,  *)
(* read_diff_from on the written bytes, and apply into an empty new_root   *)
(* with its four concurrent tasks.                                         *)
(***************************************************************************)
PipeInit ==
    /\ ppc = "scan"
    /\ old_root \in Trees
    /\ new_root \in Trees
    /\ dd = DiffingDiffNew
    /\ wr = NotWritten /\ adiff = ApplyingDiffDefault
    /\ ApplyOff

\* scan_internal returned r for one directory entry
Scanned(r) ==
    /\ ppc' = IF r.ok THEN "scan" ELSE "scan_failed"
    /\ dd' = r.d
    /\ UNCHANGED <<old_root, new_root, wr, adiff, applyVars>>

\* scan_internal(.., false, ..): the next entry read_dir yields in the old tree
ScanOld(p) ==
    /\ ppc = "scan"
    /\ p \in DOMAIN old_root \ DOMAIN dd.file_paths_old
    /\ Scanned(add_file(dd, FALSE, p, old_root))

\* scan_internal(.., true, ..): the next entry of the new tree, the old tree
\* having been scanned
ScanNew(p) ==
    /\ ppc = "scan"
    /\ DOMAIN dd.file_paths_old = DOMAIN old_root
    /\ p \in DOMAIN new_root \ DOMAIN dd.file_paths_new
    /\ Scanned(add_file(dd, TRUE, p, new_root))

\* write_to returned: self holds the blob lists generate_manifest g left
Written(g, w) ==
    /\ ppc' = IF w.ok THEN "written" ELSE "write_failed"
    /\ dd' = [dd EXCEPT !.blobs_new = g.blobs_new, !.blobs_patch = g.blobs_patch]
    /\ wr' = [ok |-> w.ok, buf |-> w.w.buf, pos |-> w.w.pos, offs_new |-> w.offs_new,
              offs_patch |-> w.offs_patch, manifest |-> g.manifest]
    /\ UNCHANGED <<old_root, new_root, adiff, applyVars>>

\* DiffingDiff::write_to on the scanned trees
WriteTo ==
    /\ ppc = "scan"
    /\ DOMAIN dd.file_paths_old = DOMAIN old_root
    /\ DOMAIN dd.file_paths_new = DOMAIN new_root
    /\ Written(generate_manifest(dd), write_to(dd, old_root, new_root))

\* read_diff_from on the bytes written
ReadDiffFrom ==
    /\ ppc = "written"
    /\ adiff' = read_diff_from(wr.buf)
    /\ ppc' = IF adiff'.ok THEN "loaded" ELSE "load_failed"
    /\ UNCHANGED <<old_root, new_root, dd, wr, applyVars>>

\* the trees apply may find under old_root: the tree that was diffed, or that
\* tree with one file changed, added or removed since
OldRootsAtApply(tree) ==
    {tree} \cup {MapPut(tree, p, c) : p \in Paths, c \in FileContents}
           \cup {MapRemove(tree, p) : p \in DOMAIN tree}

\* a spawned closure over n entries
Spawned(n) == [NoTask EXCEPT !.pc = IF n = 0 THEN "done" ELSE "run",
                             !.todo = 1..n, !.i = 1]

\* apply(): the rayon::scope spawns the tasks
ApplyBegin ==
    /\ ppc = "loaded"
    /\ \E tree \in OldRootsAtApply(old_root) :
          /\ fsys' = [old |-> tree, new |-> EmptyTree]
          /\ old0' = tree
    /\ task' = [t \in TaskNames |->
                  CASE t = "untouched" ->
                         IF adiff.manifest.untouched_files = <<>>
                            /\ adiff.manifest.duplicated_files = <<>>
                         THEN NoTask ELSE Spawned(Len(adiff.manifest.untouched_files))
                    [] t = "duplicated" ->
                         IF adiff.manifest.untouched_files = <<>>
                            /\ adiff.manifest.duplicated_files = <<>>
                         THEN NoTask ELSE Spawned(Len(adiff.manifest.duplicated_files))
                    [] t = "new" ->
                         IF adiff.manifest.new_files = <<>>
                         THEN NoTask ELSE Spawned(Len(adiff.manifest.new_files))
                    [] t = "patched" ->
                         IF adiff.manifest.patched_files = <<>>
                         THEN NoTask ELSE Spawned(Len(adiff.manifest.patched_files))]
    /\ ppc' = "applying"
    /\ UNCHANGED <<builderVars, writes, errs, mutex, reported>>

\* the errors of a step, each with the index of its entry
Indexed(i, es) == {<<i, es[k]>> : k \in 1..Len(es)}

\* the file system and the ghost records after a worker's step on entry i of task t
Stepped(t, i, step) ==
    /\ fsys' = step.fs
    /\ writes' = writes \cup {<<w[1], w[2], <<t, i, w[3]>>>> : w \in step.wrote}
    /\ reported' = reported \cup Indexed(i, step.errs)

\* one closure of a par_iter over the entries of task t has run on entry k;
\* after the last one the task collects: done if no closure returned an error
ParItem(t, k, step) ==
    /\ Stepped(t, k, step)
    /\ task' = [task EXCEPT ![t].todo = @ \ {k},
                            ![t].checks = @ \cup Indexed(k, step.errs),
                            ![t].pc = IF step.panic THEN "panicked"
                                      ELSE IF task[t].todo # {k} THEN "run"
                                      ELSE IF task[t].checks \cup Indexed(k, step.errs) = {}
                                      THEN "done" ELSE "collect"]
    /\ UNCHANGED <<ppc, builderVars, old0, errs, mutex>>

UntouchedItem(k) ==
    /\ ppc = "applying" /\ task["untouched"].pc = "run" /\ k \in task["untouched"].todo
    /\ ParItem("untouched", k, UntouchedFile(fsys, adiff.manifest.untouched_files[k]))

NewItem(k) ==
    /\ ppc = "applying" /\ task["new"].pc = "run" /\ k \in task["new"].todo
    /\ ParItem("new", k, NewFile(fsys, adiff, wr.buf, adiff.manifest.new_files[k]))

PatchedItem(k) ==
    /\ ppc = "applying" /\ task["patched"].pc = "run" /\ k \in task["patched"].todo
    /\ ParItem("patched", k, PatchedFile(fsys, adiff, wr.buf, adiff.manifest.patched_files[k]))

\* one iteration of the duplicated task's for loop: on an error the task
\* pushes it and returns
DupStepped(i, step) ==
    /\ Stepped("duplicated", i, step)
    /\ task' = [task EXCEPT !["duplicated"].i = i + 1,
                            !["duplicated"].pending =
                                [k \in 1..Len(step.errs) |-> <<i, step.errs[k]>>],
                            !["duplicated"].pc =
                                IF step.panic THEN "panicked"
                                ELSE IF step.errs # <<>> THEN "collect"
                                ELSE IF i = Len(adiff.manifest.duplicated_files) THEN "done"
                                ELSE "run"]
    /\ UNCHANGED <<ppc, builderVars, old0, errs, mutex>>

DupEntry ==
    /\ ppc = "applying" /\ task["duplicated"].pc = "run"
    /\ DupStepped(task["duplicated"].i,
                  DuplicatedFile(fsys, adiff, wr.buf,
                                 adiff.manifest.duplicated_files[task["duplicated"].i]))

\* the checks a par_iter collected (one per failing entry), in the order of
\* the entries
RECURSIVE ChecksInOrder(_)
ChecksInOrder(S) ==
    IF S = {} THEN <<>>
    ELSE LET m == CHOOSE x \in S : \A y \in S : x[1] <= y[1]
         IN  <<m>> \o ChecksInOrder(S \ {m})

\* a lock that excludes nobody
MutexAvailable_NoExclusion == TRUE

\* Mutex::lock succeeds when no other task holds the mutex
MutexAvailable == mutex = "free"

\* errs.lock(): the task owns the vector
Lock(t) ==
    /\ ppc = "applying" /\ task[t].pc = "collect"
    /\ MutexAvailable
    /\ mutex' = t
    /\ task' = [task EXCEPT ![t].pc = "locked", ![t].snap = errs,
                            ![t].pending = IF t = "duplicated" THEN @
                                           ELSE ChecksInOrder(task[t].checks)]
    /\ UNCHANGED <<ppc, builderVars, fsys, old0, writes, errs, reported>>

\* .extend(checks.drain(..)) or .push(err), and the guard is dropped
Extend(t) ==
    /\ ppc = "applying" /\ task[t].pc = "locked"
    /\ errs' = task[t].snap \o task[t].pending
    /\ mutex' = "free"
    /\ task' = [task EXCEPT ![t].pc = "done", ![t].pending = <<>>, ![t].snap = <<>>,
                            ![t].checks = {}]
    /\ UNCHANGED <<ppc, builderVars, fsys, old0, writes, reported>>

\* the scope has joined every task; aggregate_errors!(errs.into_inner()?)
ApplyEnd ==
    /\ ppc = "applying"
    /\ \A t \in TaskNames : task[t].pc \in {"none", "done", "panicked"}
    /\ ppc' = IF \E t \in TaskNames : task[t].pc = "panicked" THEN "panic"
              ELSE IF errs # <<>> THEN "err" ELSE "ok"
    /\ cmd' = "apply"
    /\ ret' = IF \E t \in TaskNames : task[t].pc = "panicked" THEN NotReturned
              ELSE aggregate_errors([k \in 1..Len(errs) |-> errs[k][2]])
    /\ UNCHANGED <<builderVars, applyVars>>

PipeNext ==
    \/ \E p \in Paths : ScanOld(p) /\ UNCHANGED <<codecVars, readerVars, cliVars, auxVars>>
    \/ \E p \in Paths : ScanNew(p) /\ UNCHANGED <<codecVars, readerVars, cliVars, auxVars>>
    \/ WriteTo /\ UNCHANGED <<codecVars, readerVars, cliVars, auxVars>>
    \/ ReadDiffFrom /\ UNCHANGED <<codecVars, readerVars, cliVars, auxVars>>
    \/ ApplyBegin /\ UNCHANGED <<codecVars, readerVars, cliVars, auxVars>>
    \/ \E k \in Paths : UntouchedItem(k) /\ UNCHANGED <<codecVars, readerVars, cliVars, auxVars>>
    \/ \E k \in Paths : NewItem(k) /\ UNCHANGED <<codecVars, readerVars, cliVars, auxVars>>
    \/ \E k \in Paths : PatchedItem(k) /\ UNCHANGED <<codecVars, readerVars, cliVars, auxVars>>
    \/ DupEntry /\ UNCHANGED <<codecVars, readerVars, cliVars, auxVars>>
    \/ \E t \in TaskNames : Lock(t) /\ UNCHANGED <<codecVars, readerVars, cliVars, auxVars>>
    \/ \E t \in TaskNames : Extend(t) /\ UNCHANGED <<codecVars, readerVars, cliVars, auxVars>>
    \/ ApplyEnd /\ UNCHANGED <<codecVars, readerVars, stdout, udst, auxVars>>

InitPipe == PipeInit /\ CodecOff /\ ReaderOff /\ CliOff /\ AuxOff

SpecPipe == InitPipe /\ [][PipeNext]_vars

(***************************************************************************)
(* Diff files on disk: the container write_to produced, possibly followed  *)
(* by bytes that belong to no section, handed to read_diff_from.           *)
(***************************************************************************)
\* what may follow the last patch blob in the file
TrailingBytes == {<<>>, <<0>>, <<7, 7>>}

\* read_diff_from(&mut Cursor::new(file)) returned r
FileLoaded(file, r) ==
    /\ rbuf' = file
    /\ adiff' = r
    /\ rpos' = r.pos
    /\ rpc' = IF r.ok THEN "accepted" ELSE "rejected"
    /\ ppc' = IF r.ok THEN "loaded" ELSE "load_failed"
    /\ UNCHANGED <<old_root, new_root, dd, wr, applyVars, rver, rkind, rman>>

\* read_diff_from_file on the written container followed by tail
LoadFile(tail) ==
    /\ ppc = "written" /\ cmd = "none"
    /\ FileLoaded(wr.buf \o tail, read_diff_from(wr.buf \o tail))

(***************************************************************************)
(* upgrade.rs.  A v1.0.0-r file is the magic, the raw msgpack manifest     *)
(* (which carries the version 01 00 00 'r') and the two blob arrays, as    *)
(* read_from and read_diff_from read it.                                   *)
(***************************************************************************)
\* the v1.0.0-r file with the entries and the blob arrays of a container buf
\* whose manifest is m
LegacyOf(buf, m) ==
    MAGIC_BYTES \o Serialize([m EXCEPT !.version = VERSION_NUMBER_1_0_0_R])
                \o SubSeq(buf, read_from(buf).pos + 1, Len(buf))

\* dst.write_all(&MAGIC_BYTES), dst.write_all(&VERSION_NUMBER_1_1_0)
UpgradeHeader == WriteAll(WriteAll(NewWriter, MAGIC_BYTES), VERSION_NUMBER_1_1_0)

\* eight zero bytes, the encoder's frame, then the length written over the
\* zeros and the writer moved back behind the frame
UpgradeManifest(w, frame) ==
    SeekRelative(
        WriteAll(SeekRelative(WriteAll(WriteAll(w, [k \in 1..8 |-> 0]), frame),
                              0 - Len(frame) - 8),
                 U64BE(Len(frame))),
        Len(frame))

\* a source left where read_100r stopped
SrcRewound_NoSeek(pos, manifest_size) == pos

\* src.seek_relative(-(manifest_size as i64)): the source's offset after it
SrcRewound(pos, manifest_size) == pos - manifest_size

\* upgrade_100r_110 from the rewind on: the manifest_size bytes at `from` go
\* through the encoder, the rest of src is copied
UpgradeCopy(src, from, manifest_size) ==
    WriteAll(UpgradeManifest(UpgradeHeader,
                             EncodeRefPrefix(<<>>, Slice(src, from,
                                                         Min(from + manifest_size, Len(src))))),
             SubSeq(src, Min(from + manifest_size, Len(src)) + 1, Len(src)))

\* upgrade_100r_110, read_100r having returned m for the source at pre_seek
Upgrade100rK(src, pre_seek, m) ==
    IF ~m.ok THEN [ok |-> FALSE, w |-> UpgradeHeader, msg |-> <<<<"deserialize">>>>]
    ELSE [ok |-> TRUE, msg |-> <<>>,
          w |-> UpgradeCopy(src, SrcRewound(m.pos, m.pos - pre_seek), m.pos - pre_seek)]

upgrade_100r_110(src, pre_seek) == Upgrade100rK(src, pre_seek, read_100r(src, pre_seek))

AutoUpgradeK(src, ver) ==
    IF ~ver.ok THEN [ok |-> FALSE, w |-> NewWriter, msg |-> <<<<"magic or version">>>>]
    ELSE IF ver.val = VERSION_NUMBER_LATEST
    THEN [ok |-> FALSE, w |-> NewWriter, msg |-> <<<<"Diff is up to date!">>>>]
    ELSE upgrade_100r_110(src, ver.pos)

\* auto_upgrade(src, dst) with dst a new file: [ok, w, msg]
auto_upgrade(src) == AutoUpgradeK(src, verify_and_read_ver(src))

\* the files the upgrade command may be given once a container is written: its
\* v1.0.0-r form, whole, cut short or with bytes after it, and the container
UpgradeSources ==
    LET legacy == LegacyOf(wr.buf, wr.manifest)
    IN  {legacy, SubSeq(legacy, 1, Len(legacy) - 1), legacy \o <<7, 7>>, wr.buf,
         MAGIC_BYTES \o Serialize(wr.manifest)}

\* auto_upgrade returned r for the source file
Upgraded(file, r) ==
    /\ cmd' = "upgrade"
    /\ rbuf' = file
    /\ udst' = r.w
    /\ ret' = IF r.ok THEN ReturnedOk ELSE ReturnedErr(r.msg)
    /\ UNCHANGED <<pipeVars, rpc, rpos, rver, rkind, rman, stdout>>

\* Commands::Upgrade on a file
Upgrade(file) ==
    /\ ppc = "written" /\ cmd = "none"
    /\ Upgraded(file, auto_upgrade(file))

\* read_diff_from_file on the file the upgrade wrote
LoadUpgraded ==
    /\ ppc = "written" /\ cmd = "upgrade" /\ ret.ok
    /\ adiff' = read_diff_from(udst.buf)
    /\ ppc' = IF adiff'.ok THEN "loaded" ELSE "load_failed"
    /\ UNCHANGED <<old_root, new_root, dd, wr, applyVars, readerVars, cliVars>>

(***************************************************************************)
(* verify.rs, on the trees fs.old (r1) and fs.new (r2).  A printed line is *)
(* <<text, root, path>>.                                                   *)
(***************************************************************************)
\* verify_against_diff: the (expected hash, root, path) triples the chained
\* iterators yield
VerifyChecks(m) ==
    UNION {{<<m.untouched_files[k].hash, "old", m.untouched_files[k].path>>,
            <<m.untouched_files[k].hash, "new", m.untouched_files[k].path>>} :
           k \in 1..Len(m.untouched_files)}
    \cup {<<m.deleted_files[k].hash, "old", m.deleted_files[k].path>> :
          k \in 1..Len(m.deleted_files)}
    \cup {<<m.new_files[k].hash, "new", m.new_files[k].path>> : k \in 1..Len(m.new_files)}
    \cup UNION {{<<m.patched_files[k].old_hash, "old", m.patched_files[k].path>>,
                 <<m.patched_files[k].new_hash, "new", m.patched_files[k].path>>} :
                k \in 1..Len(m.patched_files)}
    \cup UNION {{<<m.duplicated_files[k].hash, "old", m.duplicated_files[k].old_paths[j]>> :
                    j \in 1..Len(m.duplicated_files[k].old_paths)}
                \cup {<<m.duplicated_files[k].hash, "new", m.duplicated_files[k].new_paths[j]>> :
                    j \in 1..Len(m.duplicated_files[k].new_paths)} :
                k \in 1..Len(m.duplicated_files)}

\* the closure of the final map for the pair c = (h, p): what it prints; it
\* returns anyhow::Ok(()) on a missing file and on a different hash alike
VerifyPrinted(fs, c) ==
    IF c[3] \notin DOMAIN fs[c[2]] THEN {<<"is missing", c[2], c[3]>>}
    ELSE IF hash_file(fs[c[2]], c[3]).val # c[1] THEN {<<"is not as expected", c[2], c[3]>>}
    ELSE {}

\* verify_against_diff(r1, r2, manifest): the lines printed and the Result;
\* the errors vector collects only failures of fs::exists and hash_file
verify_against_diff(fs, m) ==
    [printed |-> UNION {VerifyPrinted(fs, c) : c \in VerifyChecks(m)},
     ret |-> aggregate_errors(<<>>)]

\* test_equality_internal on the two roots, both directories of files: the
\* names in one set only, and the files in both whose hashes differ
test_dir_equality(fs) ==
    [printed |->
        {<<"only exists in the first folder", "old", p>> :
            p \in DOMAIN fs.old \ DOMAIN fs.new}
        \cup {<<"only exists in the second folder", "new", p>> :
            p \in DOMAIN fs.new \ DOMAIN fs.old}
        \cup {<<"has differing contents", "both", p>> :
            p \in {q \in DOMAIN fs.old \cap DOMAIN fs.new :
                      hash_file(fs.old, q).val # hash_file(fs.new, q).val}},
     ret |-> ReturnedOk]

\* Commands::Verify with a diff file: read_from, then verify_against_diff
VerifyWithDiff(fs, m) ==
    IF ~m.ok THEN [printed |-> {}, ret |-> ReturnedErr(<<<<"Failed to read diff file">>>>)]
    ELSE verify_against_diff(fs, m.val)

\* a verify operation on the trees fs returned v
Verified(name, fs, v) ==
    /\ cmd' = name
    /\ fsys' = fs
    /\ stdout' = v.printed
    /\ ret' = v.ret
    /\ UNCHANGED <<ppc, builderVars, old0, writes, task, errs, mutex, reported, udst>>

\* foldiff verify OLD NEW DIFF, the trees being the diffed ones or changed by
\* one file since
Verify ==
    /\ ppc = "written" /\ cmd = "none"
    /\ rbuf' = wr.buf
    /\ \E r1 \in OldRootsAtApply(old_root), r2 \in OldRootsAtApply(new_root) :
          Verified("verify", [old |-> r1, new |-> r2],
                   VerifyWithDiff([old |-> r1, new |-> r2], read_from(wr.buf)))
    /\ UNCHANGED <<rpc, rpos, rver, rkind, rman>>

\* foldiff verify OLD NEW
Equality ==
    /\ ppc = "written" /\ cmd = "none"
    /\ \E r1 \in OldRootsAtApply(old_root), r2 \in OldRootsAtApply(new_root) :
          Verified("equality", [old |-> r1, new |-> r2],
                   test_dir_equality([old |-> r1, new |-> r2]))
    /\ UNCHANGED readerVars

DiskNext ==
    \/ \E p \in Paths : ScanOld(p) /\ UNCHANGED <<codecVars, readerVars, cliVars, auxVars>>
    \/ \E p \in Paths : ScanNew(p) /\ UNCHANGED <<codecVars, readerVars, cliVars, auxVars>>
    \/ WriteTo /\ UNCHANGED <<codecVars, readerVars, cliVars, auxVars>>
    \/ \E tail \in TrailingBytes : LoadFile(tail) /\ UNCHANGED <<codecVars, cliVars, auxVars>>
    \/ \E file \in UpgradeSources : Upgrade(file) /\ UNCHANGED <<codecVars, auxVars>>
    \/ LoadUpgraded /\ UNCHANGED <<codecVars, auxVars>>
    \/ Verify /\ UNCHANGED <<codecVars, auxVars>>
    \/ Equality /\ UNCHANGED <<codecVars, auxVars>>

SpecDisk == InitPipe /\ [][DiskNext]_vars

\* the elements of a sequence
(***************************************************************************)
(* The builder alone: add_file called with any path on either side, also   *)
(* one already recorded or one with no file behind it, any number of times *)
(***************************************************************************)
BuilderInit ==
    /\ ppc = "build"
    /\ old_root \in Trees
    /\ new_root \in Trees
    /\ dd = DiffingDiffNew
    /\ wr = NotWritten /\ adiff = ApplyingDiffDefault
    /\ ApplyOff

\* add_file returned r
Added(r) ==
    /\ ppc' = IF r.ok THEN "added" ELSE "add_failed"
    /\ dd' = r.d
    /\ UNCHANGED <<old_root, new_root, wr, adiff, applyVars>>

AddFile(in_new, p) ==
    /\ ppc \in {"build", "added", "add_failed"}
    /\ Added(add_file(dd, in_new, p, IF in_new THEN new_root ELSE old_root))

BuilderNext ==
    \E in_new \in BOOLEAN, p \in Paths :
        AddFile(in_new, p) /\ UNCHANGED <<codecVars, readerVars, cliVars, auxVars>>

InitBuilder == BuilderInit /\ CodecOff /\ ReaderOff /\ CliOff /\ AuxOff

SpecBuilder == InitBuilder /\ [][BuilderNext]_vars

(***************************************************************************)
(* apply on a crafted diff file: a container write_to produced whose       *)
(* manifest names one path by another text, absolute or with a ".."        *)
(* component.  A location is the list of the components from the file      *)
(* system's root; the two roots are the directories /o and /n.             *)
(***************************************************************************)
RootDir(root) == IF root = "new" THEN <<<<110>>>> ELSE <<<<111>>>>

\* the texts "/a" and "../a"
CraftedPaths == {FromBE(<<47, 97>>), FromBE(<<46, 46, 47, 97>>)}

\* Utf8Path::components of a text: the names between the separators, empty
\* names and "." left out; cur is the name being read
RECURSIVE Components(_, _)
Components(text, cur) ==
    IF text = <<>>
    THEN (IF cur = <<>> \/ cur = <<46>> THEN <<>> ELSE <<cur>>)
    ELSE IF text[1] = 47
    THEN (IF cur = <<>> \/ cur = <<46>> THEN <<>> ELSE <<cur>>) \o Components(Tail(text), <<>>)
    ELSE Components(Tail(text), Append(cur, text[1]))

\* Utf8Path::join: an absolute path replaces the base
Utf8PathJoin(base, text) ==
    IF text # <<>> /\ text[1] = 47 THEN Components(text, <<>>)
    ELSE base \o Components(text, <<>>)

\* the location the operating system resolves a joined path to: ".." leaves
\* the directory reached so far, and stays at the root
RECURSIVE Resolved(_, _)
Resolved(at, rest) ==
    IF rest = <<>> THEN at
    ELSE IF rest[1] = <<46, 46>>
    THEN Resolved(IF at = <<>> THEN <<>> ELSE SubSeq(at, 1, Len(at) - 1), Tail(rest))
    ELSE Resolved(Append(at, rest[1]), Tail(rest))

\* where create_file(root.join(path)) or a copy to root.join(path) writes
WriteLocation(root, path) == Resolved(<<>>, Utf8PathJoin(RootDir(root), PathText(path)))

\* manifest m with the text of path p replaced by that of q in every entry
Renamed(x, p, q) == IF x = p THEN q ELSE x

CraftedManifest(m, p, q) ==
    [m EXCEPT
        !.untouched_files = [k \in 1..Len(@) |-> [@[k] EXCEPT !.path = Renamed(@, p, q)]],
        !.deleted_files = [k \in 1..Len(@) |-> [@[k] EXCEPT !.path = Renamed(@, p, q)]],
        !.new_files = [k \in 1..Len(@) |-> [@[k] EXCEPT !.path = Renamed(@, p, q)]],
        !.patched_files = [k \in 1..Len(@) |-> [@[k] EXCEPT !.path = Renamed(@, p, q)]],
        !.duplicated_files =
            [k \in 1..Len(@) |->
                [@[k] EXCEPT !.old_paths = [j \in 1..Len(@) |-> Renamed(@[j], p, q)],
                             !.new_paths = [j \in 1..Len(@) |-> Renamed(@[j], p, q)]]]]

\* the v1.1.0 file holding manifest m and the blob arrays of container buf
CraftedFile(buf, m) ==
    MAGIC_BYTES \o VERSION_NUMBER_1_1_0
        \o U64BE(Len(EncodeRefPrefix(<<>>, Serialize(m))))
        \o EncodeRefPrefix(<<>>, Serialize(m))
        \o SubSeq(buf, read_from(buf).pos + 1, Len(buf))

\* read_diff_from on a crafted file; apply maps the same file
ReadCrafted(p, q) ==
    /\ ppc = "written"
    /\ adiff' = read_diff_from(CraftedFile(wr.buf, CraftedManifest(wr.manifest, p, q)))
    /\ wr' = [wr EXCEPT !.buf = CraftedFile(wr.buf, CraftedManifest(wr.manifest, p, q))]
    /\ ppc' = IF adiff'.ok THEN "loaded" ELSE "load_failed"
    /\ UNCHANGED <<old_root, new_root, dd, applyVars>>

CraftedNext ==
    \/ \E p \in Paths : ScanOld(p) /\ UNCHANGED <<codecVars, readerVars, cliVars, auxVars>>
    \/ \E p \in Paths : ScanNew(p) /\ UNCHANGED <<codecVars, readerVars, cliVars, auxVars>>
    \/ WriteTo /\ UNCHANGED <<codecVars, readerVars, cliVars, auxVars>>
    \/ \E p \in Paths, q \in CraftedPaths :
          ReadCrafted(p, q) /\ UNCHANGED <<codecVars, readerVars, cliVars, auxVars>>
    \/ ApplyBegin /\ UNCHANGED <<codecVars, readerVars, cliVars, auxVars>>
    \/ \E k \in Paths : UntouchedItem(k) /\ UNCHANGED <<codecVars, readerVars, cliVars, auxVars>>
    \/ \E k \in Paths : NewItem(k) /\ UNCHANGED <<codecVars, readerVars, cliVars, auxVars>>
    \/ \E k \in Paths : PatchedItem(k) /\ UNCHANGED <<codecVars, readerVars, cliVars, auxVars>>
    \/ DupEntry /\ UNCHANGED <<codecVars, readerVars, cliVars, auxVars>>
    \/ \E t \in TaskNames : Lock(t) /\ UNCHANGED <<codecVars, readerVars, cliVars, auxVars>>
    \/ \E t \in TaskNames : Extend(t) /\ UNCHANGED <<codecVars, readerVars, cliVars, auxVars>>
    \/ ApplyEnd /\ UNCHANGED <<codecVars, readerVars, stdout, udst, auxVars>>

SpecCrafted == InitPipe /\ [][CraftedNext]_vars

(***************************************************************************)
(* hash.rs: XXHashStreamer.  A writer tee is driven with arbitrary         *)
(* buffers over a sink that may accept a prefix of the buffer or fail;     *)
(* the file it wrote is rewound and read back through a reader tee whose   *)
(* source may return fewer bytes than the buffer holds, or fail.           *)
(***************************************************************************)
\* XXHashStreamer::new(w)
XXHashStreamerNew(w) == [hasher |-> XXHasherDefault, inner |-> w]

\* the tee feeding the hasher the caller's whole buffer
StreamerWrite_WholeBuffer(hs, buf, written) ==
    IF ~written.ok THEN hs
    ELSE [hasher |-> XXHasherWrite(hs.hasher, buf),
          inner |-> hs.inner \o SubSeq(buf, 1, written.n)]

\* <XXHashStreamer<W> as Write>::write(buf), the inner write having returned
\* `written` (an Err leaves through `?`): the sink holds buf[0..written], and
\* so is the hasher fed
StreamerWrite(hs, buf, written) ==
    IF ~written.ok THEN hs
    ELSE [hasher |-> XXHasherWrite(hs.hasher, SubSeq(buf, 1, written.n)),
          inner |-> hs.inner \o SubSeq(buf, 1, written.n)]

\* <XXHashStreamer<R> as Read>::read(buf) over the source bytes src, the inner
\* read having returned res: on Ok(b) the hasher is fed buf[0..b]
StreamerRead(hs, src, res) ==
    IF ~res.ok THEN hs
    ELSE [hasher |-> XXHasherWrite(hs.hasher, Slice(src, hs.pos, hs.pos + res.n)),
          pos |-> hs.pos + res.n]

\* the buffers a caller offers (two bytes each), and what an inner write or
\* read may return
TeeBuffers == [1..2 -> 0..MaxByte]
IoResults(most) == {[ok |-> FALSE, n |-> 0]} \cup {[ok |-> TRUE, n |-> k] : k \in 0..most}

TeeInit ==
    /\ tpc = "write"
    /\ hs_write = XXHashStreamerNew(<<>>)
    /\ hs_read = [hasher |-> XXHasherDefault, pos |-> 0]
    /\ tres = [ok |-> TRUE, n |-> 0]

\* hs.write(buf)
TeeWrite(buf, written) ==
    /\ tpc = "write"
    /\ Len(hs_write.inner) + written.n <= MaxLen
    /\ hs_write' = StreamerWrite(hs_write, buf, written)
    /\ tres' = written
    /\ UNCHANGED <<tpc, hs_read>>

\* f.rewind() and XXHashStreamer::new(&mut f)
TeeRewind ==
    /\ tpc = "write"
    /\ tpc' = "read"
    /\ tres' = [ok |-> TRUE, n |-> 0]
    /\ UNCHANGED <<hs_write, hs_read>>

\* one read of io::copy through the tee, into a buffer of `cap` bytes: Ok(0)
\* ends the copy, an interrupted read is tried again
TeeRead(cap, res) ==
    /\ tpc = "read"
    /\ res.n <= Len(hs_write.inner) - hs_read.pos
    /\ (res.ok /\ res.n = 0) => hs_read.pos = Len(hs_write.inner)
    /\ hs_read' = StreamerRead(hs_read, hs_write.inner, res)
    /\ tres' = res
    /\ tpc' = IF res.ok /\ res.n = 0 THEN "done" ELSE "read"
    /\ UNCHANGED hs_write

TeeNext ==
    \/ \E buf \in TeeBuffers : \E written \in IoResults(Len(buf)) :
          TeeWrite(buf, written) /\ UNCHANGED <<codecVars, readerVars, pipeVars, cliVars, spinVars>>
    \/ TeeRewind /\ UNCHANGED <<codecVars, readerVars, pipeVars, cliVars, spinVars>>
    \/ \E cap \in 1..2 : \E res \in IoResults(cap) :
          TeeRead(cap, res) /\ UNCHANGED <<codecVars, readerVars, pipeVars, cliVars, spinVars>>

InitTee == TeeInit /\ CodecOff /\ ReaderOff /\ PipeOff /\ CliOff /\ SpinOff

SpecTee == InitTee /\ [][TeeNext]_vars

(***************************************************************************)
(* reporting.rs: AutoSpin, as apply uses it.  The owner thread spins the   *)
(* four AutoSpins, works, then finishes with as1.all_good() and three      *)
(* drops, or returns early with an error, which drops the locals in the    *)
(* reverse order of their declaration.  Each AutoSpin has a ticker thread  *)
(* that holds raw pointers to its flag and its reporter.                   *)
(***************************************************************************)
\* as1..as4 of apply, by the reporter each one ticks
SpinOrder == <<"spn", "bar_untouched", "bar_new", "bar_patched">>
Spinners == 1..Len(SpinOrder)

SpinInit ==
    /\ owner = [pc |-> "spin", k |-> 1, way |-> "none"]
    /\ run = [k \in Spinners |-> FALSE]
    /\ boxed = [k \in Spinners |-> FALSE]
    /\ ticker = [k \in Spinners |-> "none"]
    /\ dangling = FALSE

\* AutoSpin::spin: the flag is boxed and true, the thread is spawned
Spin(k) ==
    /\ owner.pc = "spin" /\ owner.k = k
    /\ run' = [run EXCEPT ![k] = TRUE]
    /\ boxed' = [boxed EXCEPT ![k] = TRUE]
    /\ ticker' = [ticker EXCEPT ![k] = "load"]
    /\ owner' = IF k < Len(SpinOrder) THEN [owner EXCEPT !.k = k + 1]
                ELSE [owner EXCEPT !.pc = "work"]
    /\ UNCHANGED dangling

\* the scope and aggregate_errors!: on Ok the function goes on to
\* as1.all_good(), on Err it returns and the locals are dropped, as4 first
Work(way) ==
    /\ owner.pc = "work"
    /\ owner' = IF way = "ok" THEN [pc |-> "all_good", k |-> 1, way |-> way]
                ELSE [pc |-> "store", k |-> Len(SpinOrder), way |-> way]
    /\ UNCHANGED <<run, boxed, ticker, dangling>>

\* all_good: self.rep.done(), then self drops
AllGood ==
    /\ owner.pc = "all_good"
    /\ owner' = [owner EXCEPT !.pc = "store"]
    /\ UNCHANGED <<run, boxed, ticker, dangling>>

\* drop: self.run.store(false, Release)
DropStore ==
    /\ owner.pc = "store"
    /\ run' = [run EXCEPT ![owner.k] = FALSE]
    /\ owner' = [owner EXCEPT !.pc = "join"]
    /\ UNCHANGED <<boxed, ticker, dangling>>

\* a drop that does not wait for the thread
Joined_NoWait(k) == TRUE

\* JoinHandle::join returns once the thread has finished
Joined(k) == ticker[k] = "exited"

\* drop: join() returned; the fields are dropped, which frees the Box, and the
\* owner goes on to the next drop
DropJoin ==
    /\ owner.pc = "join"
    /\ Joined(owner.k)
    /\ boxed' = [boxed EXCEPT ![owner.k] = FALSE]
    /\ owner' = IF owner.way = "ok" /\ owner.k < Len(SpinOrder)
                THEN [owner EXCEPT !.pc = "store", !.k = owner.k + 1]
                ELSE IF owner.way = "err" /\ owner.k > 1
                THEN [owner EXCEPT !.pc = "store", !.k = owner.k - 1]
                ELSE [owner EXCEPT !.pc = "returned"]
    /\ UNCHANGED <<run, ticker, dangling>>

\* the thread: (*run_ptr).load(Acquire); a load through the pointer after the
\* Box was freed may give either value
TickerLoad(k) ==
    /\ ticker[k] = "load"
    /\ \E seen \in BOOLEAN :
          /\ boxed[k] => seen = run[k]
          /\ ticker' = [ticker EXCEPT ![k] = IF seen THEN "tick" ELSE "exited"]
    /\ dangling' = (dangling \/ ~boxed[k])
    /\ UNCHANGED <<owner, run, boxed>>

\* the thread: (&*rep_ptr).tick()
TickerTick(k) ==
    /\ ticker[k] = "tick"
    /\ ticker' = [ticker EXCEPT ![k] = "sleep"]
    /\ dangling' = (dangling \/ ~boxed[k])
    /\ UNCHANGED <<owner, run, boxed>>

\* the thread: thread::sleep_ms(50)
TickerSleep(k) ==
    /\ ticker[k] = "sleep"
    /\ ticker' = [ticker EXCEPT ![k] = "load"]
    /\ UNCHANGED <<owner, run, boxed, dangling>>

SpinRest == <<codecVars, readerVars, pipeVars, cliVars, teeVars>>

OwnerStep ==
    /\ \/ \E k \in Spinners : Spin(k)
       \/ \E way \in {"ok", "err"} : Work(way)
       \/ AllGood
       \/ DropStore
       \/ DropJoin
    /\ UNCHANGED SpinRest

TickerStep(k) ==
    /\ TickerLoad(k) \/ TickerTick(k) \/ TickerSleep(k)
    /\ UNCHANGED SpinRest

SpinNext ==
    \/ \E k \in Spinners : Spin(k) /\ UNCHANGED SpinRest
    \/ \E way \in {"ok", "err"} : Work(way) /\ UNCHANGED SpinRest
    \/ AllGood /\ UNCHANGED SpinRest
    \/ DropStore /\ UNCHANGED SpinRest
    \/ DropJoin /\ UNCHANGED SpinRest
    \/ \E k \in Spinners : TickerLoad(k) /\ UNCHANGED SpinRest
    \/ \E k \in Spinners : TickerTick(k) /\ UNCHANGED SpinRest
    \/ \E k \in Spinners : TickerSleep(k) /\ UNCHANGED SpinRest

InitSpin == SpinInit /\ CodecOff /\ ReaderOff /\ PipeOff /\ CliOff /\ TeeOff

SpecSpin == InitSpin /\ [][SpinNext]_vars

\* every thread that can take a step is scheduled in the end: the owner, and
\* each ticker (tick and sleep_ms return)
SpecSpinFair ==
    /\ SpecSpin
    /\ WF_vars(OwnerStep)
    /\ \A k \in Spinners : WF_vars(TickerStep(k))

Range(q) == {q[k] : k \in 1..Len(q)}

\* apply has returned or unwound
ApplyReturned == ppc \in {"ok", "err", "panic"}

\* C1: for every pair of trees O and N the diff is built (scan_to_diff and
\* write_to succeed), and applying it to O succeeds and leaves under new_root
\* exactly the paths and contents of N.
C1_ApplyDiffGivesNew ==
    /\ ppc \notin {"scan_failed", "write_failed", "load_failed"}
    /\ (ApplyReturned /\ old0 = old_root) => (ppc = "ok" /\ fsys.new = new_root)

\* the <<path, hash>> the manifest m asserts for the destination paths
ExpectedNew(m) ==
    {<<e.path, e.hash>> : e \in Range(m.untouched_files)}
    \cup {<<e.path, e.hash>> : e \in Range(m.new_files)}
    \cup {<<e.path, e.new_hash>> : e \in Range(m.patched_files)}
    \cup UNION {{<<p, e.hash>> : p \in Range(e.new_paths)} : e \in Range(m.duplicated_files)}

\* C3: when apply returns Ok, every file it created under new_root hashes to
\* the value the manifest records for that destination path.
C3_WrittenHashesMatch ==
    ppc = "ok" =>
        \A w \in writes : \A x \in ExpectedNew(adiff.manifest) :
            (w[1] = "new" /\ x[1] = w[2]) => hash_stream(fsys.new[w[2]]) = x[2]

\* the old-side and the new-side paths of a manifest, with repetitions
OldSide(m) ==
    [k \in 1..Len(m.untouched_files) |-> m.untouched_files[k].path]
    \o [k \in 1..Len(m.deleted_files) |-> m.deleted_files[k].path]
    \o [k \in 1..Len(m.patched_files) |-> m.patched_files[k].path]
    \o Flatten([k \in 1..Len(m.duplicated_files) |-> m.duplicated_files[k].old_paths])

NewSide(m) ==
    [k \in 1..Len(m.untouched_files) |-> m.untouched_files[k].path]
    \o [k \in 1..Len(m.new_files) |-> m.new_files[k].path]
    \o [k \in 1..Len(m.patched_files) |-> m.patched_files[k].path]
    \o Flatten([k \in 1..Len(m.duplicated_files) |-> m.duplicated_files[k].new_paths])

NoRepeat(q) == \A j, k \in 1..Len(q) : q[j] = q[k] => j = k

\* generate_manifest has run on the scanned trees
Generated == ppc \notin {"off", "scan", "scan_failed"}

\* C4: in the manifest generate_manifest produced, no path occurs twice on the
\* old side and no path occurs twice on the new side.
C4_NoPathTwice ==
    Generated => (NoRepeat(OldSide(wr.manifest)) /\ NoRepeat(NewSide(wr.manifest)))

\* write_to returned Ok: the container is wr.buf
ContainerWritten == Generated /\ wr.ok

\* the blob counts written to the container: K_n follows the compressed
\* manifest, K_p precedes the first patch blob (or ends the file)
NewBlobCount == FromBE(Slice(wr.buf, 16 + FromBE(Slice(wr.buf, 8, 16)),
                             24 + FromBE(Slice(wr.buf, 8, 16))))

PatchBlobCount ==
    IF wr.offs_patch = <<>> THEN FromBE(Slice(wr.buf, Len(wr.buf) - 8, Len(wr.buf)))
    ELSE FromBE(Slice(wr.buf, wr.offs_patch[1] - 8, wr.offs_patch[1]))

\* slot idx (0-based) of the container's new-blob array decompresses to h-hashed content
NewSlotHolds(idx, h) ==
    /\ idx < NewBlobCount
    /\ idx < Len(wr.offs_new)
    /\ LET b == BlobAt(wr.buf, wr.offs_new[idx + 1])
       IN  /\ b.ok
           /\ DecodeRefPrefix(<<>>, b.bytes).ok
           /\ hash_stream(DecodeRefPrefix(<<>>, b.bytes).out) = h

\* C5: every DUPLICATED entry the builder emits with idx # u64::MAX has no old
\* path, at least one new path, and slot idx of the new-blob array of the
\* written container holds the compressed content whose hash is the entry's.
C5_DuplicatedBlobSlot ==
    ContainerWritten =>
        \A e \in Range(wr.manifest.duplicated_files) :
            e.idx # U64_MAX =>
                (e.old_paths = <<>> /\ e.new_paths # <<>> /\ NewSlotHolds(e.idx, e.hash))

\* the new-blob and patch-blob indices a manifest uses, with repetitions
NewIndices(m) ==
    [k \in 1..Len(m.new_files) |-> m.new_files[k].index]
    \o SelectSeq([k \in 1..Len(m.duplicated_files) |-> m.duplicated_files[k].idx],
                 LAMBDA i : i # U64_MAX)

PatchIndices(m) == [k \in 1..Len(m.patched_files) |-> m.patched_files[k].index]

\* C6: in a written container the new-blob indices the manifest uses are
\* pairwise distinct and are exactly 0..K_n-1, and the patch-blob indices are
\* pairwise distinct and are exactly 0..K_p-1.
C6_DenseIndices ==
    ContainerWritten =>
        /\ NoRepeat(NewIndices(wr.manifest))
        /\ Range(NewIndices(wr.manifest)) = 0..(NewBlobCount - 1)
        /\ NoRepeat(PatchIndices(wr.manifest))
        /\ Range(PatchIndices(wr.manifest)) = 0..(PatchBlobCount - 1)

\* the manifest entries of each task
EntriesOf(t) ==
    CASE t = "untouched" -> adiff.manifest.untouched_files
      [] t = "duplicated" -> adiff.manifest.duplicated_files
      [] t = "new" -> adiff.manifest.new_files
      [] t = "patched" -> adiff.manifest.patched_files

\* C7: apply returns only when every spawned task has finished; whatever
\* errors occurred, every entry of the untouched, new and patched categories
\* was processed and the duplicated entries were processed up to the first
\* one that failed; apply fails exactly when a worker reported an error, and
\* the aggregated list holds every reported error exactly once.
C7_ErrorsAggregated ==
    /\ ppc # "panic"
    /\ Range(errs) \subseteq reported
    /\ ApplyReturned =>
          /\ \A t \in TaskNames :
                /\ task[t].pc \in {"none", "done"}
                /\ EntriesOf(t) # <<>> => task[t].pc = "done"
          /\ \A t \in {"untouched", "new", "patched"} : task[t].todo = {}
          /\ task["duplicated"].pc = "done" =>
                \/ task["duplicated"].i = Len(EntriesOf("duplicated")) + 1
                \/ \E e \in Range(errs) :
                      e[2][1] = "duplicated" /\ e[1] = task["duplicated"].i - 1
          /\ (ppc = "err") <=> (reported # {})
          /\ Range(errs) = reported
          /\ Len(errs) = Cardinality(reported)

\* C7 witness: apply failed with errors of two categories in the list
C7_Witness ==
    /\ ppc = "err"
    /\ \E j, k \in 1..Len(errs) : errs[j][2][1] # errs[k][2][1]

\* C8: no file under old_root is ever created, written or removed by apply,
\* every write lands under new_root, no destination is written by two
\* workers, and every file under new_root was written by exactly one worker.
C8_OneWriterPerDestination ==
    /\ ppc \in {"applying", "ok", "err", "panic"} => fsys.old = old0
    /\ \A w \in writes : w[1] = "new"
    /\ \A v, w \in writes : (v[1] = w[1] /\ v[2] = w[2]) => v[3] = w[3]
    /\ \A p \in DOMAIN fsys.new : \E w \in writes : w[1] = "new" /\ w[2] = p
    /\ \A w \in writes : w[1] = "new" => w[2] \in DOMAIN fsys.new

\* C8 witness: apply succeeded with files written by workers of two tasks
C8_Witness ==
    /\ ppc = "ok"
    /\ \E v, w \in writes : v[3][1] # w[3][1]

\* read_diff_from has run on a container write_to produced
Walked == wr.ok /\ ppc \in {"loaded", "load_failed", "applying", "ok", "err", "panic"}

\* where blob i of a blob array ends: at the next blob, or at `last`
BlobEnd(offs, i, last) == IF i < Len(offs) THEN offs[i + 1] ELSE last

\* C10: on a container write_to produced, read_diff_from records K_n new-blob
\* offsets and K_p patch-blob offsets, each the position where write_to began
\* that blob; every length header equals the size of the payload after it
\* (the manifest, each new blob in blobs_new order, each patch blob in
\* blobs_patch order with its chunks), and the walk ends at end-of-file.
C10_WalkMatchesWrite ==
    Walked =>
        /\ adiff.ok
        /\ adiff.blobs_new = wr.offs_new /\ Len(adiff.blobs_new) = NewBlobCount
        /\ adiff.blobs_patch = wr.offs_patch /\ Len(adiff.blobs_patch) = PatchBlobCount
        /\ adiff.pos = Len(wr.buf)
        /\ BlobAt(wr.buf, 8) = [ok |-> TRUE,
                                bytes |-> EncodeRefPrefix(<<>>, Serialize(wr.manifest))]
        /\ \A i \in 1..Len(wr.offs_new) :
              /\ BlobAt(wr.buf, wr.offs_new[i]) =
                    [ok |-> TRUE,
                     bytes |-> EncodeRefPrefix(<<>>, new_root[dd.blobs_new[i]])]
              /\ wr.offs_new[i] + 8 + Len(BlobAt(wr.buf, wr.offs_new[i]).bytes)
                    = BlobEnd(wr.offs_new, i,
                              BlobEnd(<<0>> \o wr.offs_patch, 1, Len(wr.buf)) - 8)
        /\ \A i \in 1..Len(wr.offs_patch) :
              Slice(wr.buf, wr.offs_patch[i], BlobEnd(wr.offs_patch, i, Len(wr.buf)))
                 = diff(old_root[dd.blobs_patch[i]], new_root[dd.blobs_patch[i]],
                        NewWriter).buf

\* C10 witness: a walk over a new blob and a patch blob of two chunks
C10_Witness ==
    /\ ppc = "loaded"
    /\ Len(adiff.blobs_new) >= 1
    /\ \E i \in 1..Len(adiff.blobs_patch) :
          FromBE(Slice(wr.buf, adiff.blobs_patch[i], adiff.blobs_patch[i] + 8)) = 2

\* the file read_diff_from was given holds bytes after the written container
HasTrailingBytes ==
    cmd = "none" /\ rpc \in {"accepted", "rejected"} /\ Len(rbuf) > Len(wr.buf)

\* C11: read_diff_from rejects a diff file that holds bytes after its last
\* patch blob.
C11_TrailingBytesRejected == HasTrailingBytes => rpc = "rejected"

\* the source of the upgrade is a v1.0.0-r diff: the reader takes the raw
\* manifest branch and reads the whole container
IsLegacyDiff(buf) ==
    /\ verify_and_read_ver(buf).ok
    /\ verify_and_read_ver(buf).val = VERSION_NUMBER_1_0_0_R
    /\ read_diff_from(buf).ok

\* the five entry lists of a manifest
EntryLists(m) ==
    <<m.untouched_files, m.deleted_files, m.new_files, m.duplicated_files, m.patched_files>>

\* the bytes of a container from the end of its manifest on: the two blob arrays
BlobArrays(buf) == SubSeq(buf, read_from(buf).pos + 1, Len(buf))

\* what the workers of apply do for each entry of d read from the file buf
EntrySteps(d, buf) ==
    LET fs0 == [old |-> old_root, new |-> EmptyTree]
    IN  <<[k \in 1..Len(d.manifest.untouched_files) |->
              UntouchedFile(fs0, d.manifest.untouched_files[k])],
          [k \in 1..Len(d.manifest.new_files) |->
              NewFile(fs0, d, buf, d.manifest.new_files[k])],
          [k \in 1..Len(d.manifest.patched_files) |->
              PatchedFile(fs0, d, buf, d.manifest.patched_files[k])],
          [k \in 1..Len(d.manifest.duplicated_files) |->
              DuplicatedFile(fs0, d, buf, d.manifest.duplicated_files[k])]>>

\* C12: for every legacy v1.0.0-r diff D, auto_upgrade succeeds and writes a
\* file that starts with 'FLDF' 00 01 01 00; the v1.1.0 reader accepts it, its
\* manifest has the entries of D in all five categories, its blob arrays are
\* byte for byte those of D, and every entry is applied to the old tree with
\* the same outcome as from D.
C12_UpgradePreserves ==
    (cmd = "upgrade" /\ ret.returned /\ IsLegacyDiff(rbuf)) =>
        /\ ret.ok
        /\ SubSeq(udst.buf, 1, 8) = <<70, 76, 68, 70, 0, 1, 1, 0>>
        /\ read_diff_from(udst.buf).ok
        /\ ppc # "load_failed"
        /\ ppc = "loaded" =>
              /\ EntryLists(adiff.manifest) = EntryLists(read_diff_from(rbuf).manifest)
              /\ Len(adiff.blobs_new) = Len(read_diff_from(rbuf).blobs_new)
              /\ Len(adiff.blobs_patch) = Len(read_diff_from(rbuf).blobs_patch)
              /\ BlobArrays(udst.buf) = BlobArrays(rbuf)
              /\ EntrySteps(adiff, udst.buf) = EntrySteps(read_diff_from(rbuf), rbuf)

\* C12 witness: a legacy diff with a new blob and a patch blob was upgraded
\* and the upgraded file read back
C12_Witness ==
    /\ cmd = "upgrade" /\ IsLegacyDiff(rbuf) /\ ppc = "loaded"
    /\ adiff.blobs_new # <<>> /\ adiff.blobs_patch # <<>>
    /\ adiff.manifest.patched_files # <<>>

\* scan_internal over a tree whose directory yields its entries in ascending
\* path order, from path p on
RECURSIVE ScanAscending(_, _, _, _)
ScanAscending(d, in_new, tree, p) ==
    IF p > NumPaths THEN d
    ELSE ScanAscending(IF p \in DOMAIN tree THEN add_file(d, in_new, p, tree).d ELSE d,
                       in_new, tree, p + 1)

\* the manifest of the run in which both directories enumerate in ascending order
AscendingManifest ==
    generate_manifest(
        ScanAscending(ScanAscending(DiffingDiffNew, FALSE, old_root, 1),
                      TRUE, new_root, 1)).manifest

\* C13: whatever order read_dir yields the entries in, the builder's manifest
\* for a pair of trees is the one manifest of that pair: it equals the
\* manifest of the run that enumerates both trees in ascending order.
C13_ManifestDeterministic == Generated => wr.manifest = AscendingManifest

\* diff has computed its chunk count
DiffBegun == zpc \in {"diff", "diffed"}

\* C14: when the old input of diff has length 0, the chunk count written is 1
\* and exactly one chunk is written, encoded against an empty prefix from the
\* whole new stream; apply then reconstructs the new stream.
C14_EmptyOldOneChunk ==
    (zold = <<>> /\ zpc \notin {"off", "start"}) =>
        /\ zn = 1
        /\ SubSeq(zdest.buf, 1, 8) = U64BE(1)
        /\ zpc = "diffed" =>
              zdest.buf = U64BE(1) \o U64BE(Len(EncodeRefPrefix(<<>>, znew)))
                                   \o EncodeRefPrefix(<<>>, znew)
        /\ zpc \in {"done", "err"} => (zpc = "done" /\ zout = znew)

\* ceil(a / b) in exact integer arithmetic
CeilDiv(a, b) == (a + b - 1) \div b

\* [floor(i * len / n), floor((i + 1) * len / n)), i counted from 0
FloorSpan(i, len, n) == <<(i * len) \div n, ((i + 1) * len) \div n>>

\* the range diff reads for chunk i (from 0) of a stream of length len
ChunkSpan(i, len, n) ==
    <<calc_chunks(n, len)[i + 1], ChunkEnd(calc_chunks(n, len), i + 1, len)>>

\* C15: for every old length L_old > 0 and new length L_new, diff uses
\* N = ceil(L_old / CHUNK_SIZE) chunks (1 at CHUNK_SIZE, 2 at CHUNK_SIZE + 1),
\* and chunk i of 0..N-1 spans [floor(i*L/N), floor((i+1)*L/N)) of the old
\* stream and of the new stream: the chunks of a side start at 0, are
\* contiguous, and the last one ends at the stream's length.
C15_ChunkGeometry ==
    (DiffBegun /\ Len(zold) > 0) =>
        /\ zn = CeilDiv(Len(zold), CHUNK_SIZE)
        /\ Len(zold) = CHUNK_SIZE => zn = 1
        /\ Len(zold) = CHUNK_SIZE + 1 => zn = 2
        /\ \A i \in 0..(zn - 1) :
              /\ ChunkSpan(i, Len(zold), zn) = FloorSpan(i, Len(zold), zn)
              /\ ChunkSpan(i, Len(znew), zn) = FloorSpan(i, Len(znew), zn)

\* C16: for all lengths of the inputs, every chunk diff processes is bounded:
\* the old range loaded as the reference prefix and the new range fed to the
\* compressor are each at most CHUNK_SIZE bytes long.
C16_ChunksBounded ==
    (zpc = "diff" /\ zi <= zn) =>
        /\ ChunkSpan(zi - 1, Len(zold), zn)[2] - ChunkSpan(zi - 1, Len(zold), zn)[1]
              <= CHUNK_SIZE
        /\ ChunkSpan(zi - 1, Len(znew), zn)[2] - ChunkSpan(zi - 1, Len(znew), zn)[1]
              <= CHUNK_SIZE

\* the content groups for which step 4 of generate_manifest pushes no DELETED
\* entry: one old path, no new path, and the path is in file_paths_new
OmittedDeleted ==
    {h \in DOMAIN dd.files :
        /\ dd.files[h].paths_new = <<>>
        /\ Len(dd.files[h].paths_old) = 1
        /\ dd.files[h].paths_old[1] \in DOMAIN dd.file_paths_new}

\* C17: whenever generate_manifest omits the DELETED entry of a group with one
\* old path and no new path because the path exists in the new tree, the
\* manifest holds a PATCHED entry for that path whose old_hash is the group's
\* hash.
C17_OmittedDeletedIsPatched ==
    Generated =>
        \A h \in OmittedDeleted :
            \E k \in 1..Len(wr.manifest.patched_files) :
                /\ wr.manifest.patched_files[k].path = dd.files[h].paths_old[1]
                /\ wr.manifest.patched_files[k].old_hash = h

\* the entries of task t its worker has not processed
Unprocessed(t) ==
    IF task[t].pc = "none" THEN {}
    ELSE IF t = "duplicated"
    THEN task[t].i..Len(adiff.manifest.duplicated_files)
    ELSE task[t].todo

\* C18: in each of the four apply pipelines, the duplicated-files one
\* included, an error on one entry ends the work on that entry only: when
\* apply returns, every worker has processed every entry of its category.
C18_ErrorAbortsOnlyEntry ==
    ppc \in {"ok", "err"} => \A t \in TaskNames : Unprocessed(t) = {}

\* verify_against_diff had a pair (h, p) whose file is missing or hashes to
\* another value
VerifyMismatch ==
    \E c \in VerifyChecks(wr.manifest) :
        \/ c[3] \notin DOMAIN fsys[c[2]]
        \/ hash_stream(fsys[c[2]][c[3]]) # c[1]

\* test_dir_equality met a file present in both trees with differing content
EqualityMismatch ==
    \E p \in DOMAIN fsys.old \cap DOMAIN fsys.new : fsys.old[p] # fsys.new[p]

\* C19: a verify operation returns an error whenever a file it checks is
\* missing or has another content hash than expected: verify_against_diff
\* for every (hash, path) pair of the manifest, test_dir_equality for every
\* file in both trees.
C19_VerifyFailsOnMismatch ==
    /\ (cmd = "verify" /\ ret.returned /\ VerifyMismatch) => ~ret.ok
    /\ (cmd = "equality" /\ ret.returned /\ EqualityMismatch) => ~ret.ok

\* C20: when the error list of an apply or verify run holds exactly one error
\* the operation fails with that error's message alone; the first line is
\* "Failed with multiple errors:" only when it holds two or more.
C20_SingleErrorUnadorned ==
    (cmd \in {"apply", "verify"} /\ ret.returned /\ ~ret.ok /\ ppc = "err") =>
        IF Len(errs) = 1 THEN ret.msg = <<errs[1][2]>>
        ELSE ret.msg = <<<<"Failed with multiple errors:">>>>
                          \o [k \in 1..Len(errs) |-> errs[k][2]]

\* the DUPLICATED entries the duplicated task has processed
DupProcessed ==
    IF task["duplicated"].pc = "none" THEN {}
    ELSE 1..(task["duplicated"].i - 1)

\* an old path of DUPLICATED entry d holds other content than d.hash names
OldPathDiffers(d) ==
    \E k \in 1..Len(d.old_paths) :
        /\ d.old_paths[k] \in DOMAIN old0
        /\ hash_stream(old0[d.old_paths[k]]) # d.hash

\* C22: for every DUPLICATED entry the duplicated task hashes the files of
\* old_paths; if one of them does not hash to the entry's hash the task
\* reports an error for the entry, apply fails, and nothing is copied to the
\* entry's new paths.
C22_DupOldHashChecked ==
    ppc \in {"ok", "err"} =>
        \A i \in DupProcessed :
            OldPathDiffers(adiff.manifest.duplicated_files[i]) =>
                /\ ppc = "err"
                /\ \E e \in Range(errs) : e[1] = i /\ e[2][1] = "duplicated"
                /\ ~\E w \in writes : w[3][1] = "duplicated" /\ w[3][2] = i

\* C23: for a DUPLICATED entry with idx other than the sentinel (and no old
\* path), apply decompresses new blob idx into new_paths[0], checks its hash
\* against the entry's, and copies that file to the other new paths, without
\* an error or a panic: every new path then holds the content of the hash.
C23_DupFromBlob ==
    (ApplyReturned /\ old0 = old_root) =>
        \A i \in 1..Len(adiff.manifest.duplicated_files) :
            adiff.manifest.duplicated_files[i].idx # U64_MAX =>
                /\ ppc # "panic"
                /\ i \in DupProcessed
                /\ ~\E e \in Range(errs) : e[1] = i /\ e[2][1] = "duplicated"
                /\ \A k \in 1..Len(adiff.manifest.duplicated_files[i].new_paths) :
                      LET p == adiff.manifest.duplicated_files[i].new_paths[k]
                      IN  /\ p \in DOMAIN fsys.new
                          /\ hash_stream(fsys.new[p]) = adiff.manifest.duplicated_files[i].hash

\* the builder as scan_to_diff left it, before generate_manifest appended to
\* its blob lists
ScannedDiff == [dd EXCEPT !.blobs_new = <<>>, !.blobs_patch = <<>>]

\* the row of the classification table for a content group with at most one
\* path on each side
SinglePathRow(h, e, m) ==
    /\ (Len(e.paths_old) = 1 /\ Len(e.paths_new) = 1 /\ e.paths_old = e.paths_new) =>
          [hash |-> h, path |-> e.paths_old[1]] \in Range(m.untouched_files)
    /\ (Len(e.paths_old) = 1 /\ Len(e.paths_new) = 1 /\ e.paths_old # e.paths_new) =>
          /\ [hash |-> h, idx |-> U64_MAX, old_paths |-> e.paths_old,
              new_paths |-> e.paths_new] \in Range(m.duplicated_files)
          /\ e.paths_new[1] \notin Range(dd.blobs_new) \cup Range(dd.blobs_patch)
    /\ (e.paths_old = <<>> /\ Len(e.paths_new) = 1
          /\ e.paths_new[1] \in DOMAIN dd.file_paths_old) =>
          /\ dd.file_paths_old[e.paths_new[1]] # h
          /\ \E k \in 1..Len(m.patched_files) :
                /\ m.patched_files[k].path = e.paths_new[1]
                /\ m.patched_files[k].new_hash = h
                /\ m.patched_files[k].old_hash = dd.file_paths_old[e.paths_new[1]]
    /\ (e.paths_old = <<>> /\ Len(e.paths_new) = 1
          /\ e.paths_new[1] \notin DOMAIN dd.file_paths_old) =>
          \E k \in 1..Len(m.new_files) :
              m.new_files[k].path = e.paths_new[1] /\ m.new_files[k].hash = h
    /\ (Len(e.paths_old) = 1 /\ e.paths_new = <<>>
          /\ e.paths_old[1] \notin DOMAIN dd.file_paths_new) =>
          [hash |-> h, path |-> e.paths_old[1]] \in Range(m.deleted_files)

\* C24: generate_manifest never fails with "slipping through the cracks", and
\* a group with at most one path per side is classified by the table: equal
\* paths UNTOUCHED; a rename DUPLICATED with the sentinel idx and no blob; a
\* lone new path PATCHED (old_hash the old tree's hash at the path, other than
\* new_hash) when the path is in the old tree and NEW otherwise; a lone old
\* path absent from the new tree DELETED.
C24_Classification ==
    Generated =>
        /\ generate_manifest(ScannedDiff).ok
        /\ generate_manifest(ScannedDiff).manifest = wr.manifest
        /\ \A h \in DOMAIN dd.files : SinglePathRow(h, dd.files[h], wr.manifest)

\* C24 witness: a manifest with a PATCHED and a DELETED entry was generated
C24_Witness ==
    /\ Generated
    /\ wr.manifest.patched_files # <<>>
    /\ wr.manifest.deleted_files # <<>>

\* the (path, content hash) pairs on the new side of manifest m, in entry order
NewSideHashed(m) ==
    [k \in 1..Len(m.untouched_files) |->
        <<m.untouched_files[k].path, m.untouched_files[k].hash>>]
    \o [k \in 1..Len(m.new_files) |-> <<m.new_files[k].path, m.new_files[k].hash>>]
    \o [k \in 1..Len(m.patched_files) |->
        <<m.patched_files[k].path, m.patched_files[k].new_hash>>]
    \o Flatten([k \in 1..Len(m.duplicated_files) |->
        [j \in 1..Len(m.duplicated_files[k].new_paths) |->
            <<m.duplicated_files[k].new_paths[j], m.duplicated_files[k].hash>>]])

\* C25: every path recorded for the new tree appears exactly once on the new
\* side of the generated manifest, in an entry carrying the hash of the file's
\* content; no new-tree file is left out and none is listed twice.
C25_NewSideComplete ==
    Generated =>
        /\ NoRepeat(NewSide(wr.manifest))
        /\ Range(NewSideHashed(wr.manifest)) =
              {<<p, hash_stream(new_root[p])>> : p \in DOMAIN new_root}
        /\ DOMAIN dd.file_paths_new = DOMAIN new_root

\* C25 witness: a manifest generated for a new tree whose files all share one
\* content, listed in one DUPLICATED entry
C25_Witness ==
    /\ Generated
    /\ Cardinality(DOMAIN new_root) = NumPaths
    /\ \E k \in 1..Len(wr.manifest.duplicated_files) :
          Len(wr.manifest.duplicated_files[k].new_paths) = NumPaths

\* C27: generate_manifest called again on the DiffingDiff that write_to has
\* already run it on returns the same manifest as the first call, and the blob
\* lists a following write_to would emit match it: one new blob per NEW entry
\* and one patch blob per PATCHED entry, the entry's index being its position.
C27_GenerateRepeatable ==
    Generated =>
        /\ generate_manifest(dd).ok
        /\ generate_manifest(dd).manifest = wr.manifest
        /\ \A k \in 1..Len(wr.manifest.new_files) :
              /\ wr.manifest.new_files[k].index < Len(generate_manifest(dd).blobs_new)
              /\ generate_manifest(dd).blobs_new[wr.manifest.new_files[k].index + 1] =
                    wr.manifest.new_files[k].path
        /\ Len(generate_manifest(dd).blobs_new) + Len(generate_manifest(dd).blobs_patch) =
              Len(dd.blobs_new) + Len(dd.blobs_patch)

\* the number of positions of q holding x
Occurrences(q, x) == Cardinality({k \in 1..Len(q) : q[k] = x})

PathsByHash(d, in_new, h) == IF in_new THEN d.files[h].paths_new ELSE d.files[h].paths_old

HashByPath(d, in_new) == IF in_new THEN d.file_paths_new ELSE d.file_paths_old

\* one side of builder d is in sync: p maps to h in the side's path-to-hash
\* map iff p is in the side's path list of content group h, once
SideSynced(d, in_new) ==
    /\ \A p \in DOMAIN HashByPath(d, in_new) : HashByPath(d, in_new)[p] \in DOMAIN d.files
    /\ \A h \in DOMAIN d.files : \A p \in Paths :
          /\ Occurrences(PathsByHash(d, in_new, h), p) <= 1
          /\ (p \in DOMAIN HashByPath(d, in_new) /\ HashByPath(d, in_new)[p] = h)
                <=> (Occurrences(PathsByHash(d, in_new, h), p) = 1)

\* a step that is add_file(in_new, p) with p already recorded on that side
\* fails and leaves the builder as it was
RecordedPathRejected(in_new, p) ==
    (AddFile(in_new, p) /\ p \in DOMAIN HashByPath(dd, in_new)) =>
        (ppc' = "add_failed" /\ dd' = dd)

\* C28: after any sequence of add_file calls, successful or failing, files,
\* file_paths_old and file_paths_new are in sync on both sides, and a call
\* with a path already recorded on its side returns an error and changes none
\* of the maps.
C28_MapsInSync ==
    /\ [](SideSynced(dd, FALSE) /\ SideSynced(dd, TRUE))
    /\ [][\A in_new \in BOOLEAN, p \in Paths : RecordedPathRejected(in_new, p)]_vars

\* C28 witness: with a file behind every path, so that hashing cannot fail, a
\* call was rejected while a content group holds paths of both sides
C28_Witness ==
    /\ ppc = "add_failed"
    /\ DOMAIN old_root = Paths /\ DOMAIN new_root = Paths
    /\ \E h \in DOMAIN dd.files :
          dd.files[h].paths_old # <<>> /\ dd.files[h].paths_new # <<>>

\* C29: for a blob diff produced from an old stream of length L, apply with
\* old_len = L reads old sequentially from 0: before chunk i it has read
\* exactly floor(i*L/N) bytes, the range it reads as the prefix of chunk i is
\* [floor(i*L/N), floor((i+1)*L/N)), the range diff used for chunk i, N being
\* the count in the blob header; when it returns it has read L bytes.
C29_ApplyReadsSequentially ==
    /\ (zpc = "apply" /\ zi <= zn) =>
          /\ zopos = FloorSpan(zi - 1, Len(zold), zn)[1]
          /\ ChunkSpan(zi - 1, Len(zold), zn) = FloorSpan(zi - 1, Len(zold), zn)
    /\ zpc = "done" => zopos = Len(zold)

\* location loc lies inside the directory dir
Inside(dir, loc) == Len(loc) > Len(dir) /\ SubSeq(loc, 1, Len(dir)) = dir

\* C26: for any diff file the reader accepts, whatever the path texts of its
\* manifest (absolute ones and ones with ".." components included), every
\* file apply creates or writes lies inside new_root.
C26_WritesInsideNewRoot ==
    \A w \in writes : Inside(RootDir("new"), WriteLocation(w[1], w[2]))

\* C21: after any sequence of writes through an XXHashStreamer, the sink
\* accepting all, part or none of each buffer or failing, finish() is the hash
\* of the bytes the sink accepted; and once those bytes were read back through
\* a reader tee, in whatever pieces, the writer tee, the reader tee and
\* hash_stream over the bytes give the same hash.
C21_TeeHashesWhatPassed ==
    /\ tpc # "off" => hs_write.hasher = hash_stream(hs_write.inner)
    /\ tpc = "done" =>
          /\ hs_read.pos = Len(hs_write.inner)
          /\ hs_read.hasher = hash_stream(hs_write.inner)
          /\ hs_read.hasher = hs_write.hasher

\* C21 witness: a sink that accepted one byte of some two-byte buffer, the
\* file read back to its end
C21_Witness ==
    /\ tpc = "done"
    /\ Len(hs_write.inner) % 2 = 1
    /\ Len(hs_write.inner) >= 3

\* drop has returned for AutoSpin k
Dropped(k) == ticker[k] # "none" /\ ~boxed[k]

\* C30: once an AutoSpin has been dropped (by drop, through all_good, or on an
\* early error return) its ticker thread has terminated, so that the ticker
\* never ticks the reporter or reads the flag after drop returned; and once
\* drop has set the flag the ticker stops and drop's join completes.
C30_TickerStopsWithDrop ==
    /\ [](~dangling /\ \A k \in Spinners : Dropped(k) => ticker[k] = "exited")
    /\ \A k \in Spinners : (owner.pc = "join" /\ owner.k = k) ~> Dropped(k)

\* C30 witness: an early error return has dropped all four AutoSpins
C30_Witness ==
    /\ owner.pc = "returned" /\ owner.way = "err"
    /\ \A k \in Spinners : Dropped(k)

====
